---- MODULE Spec2Model ----
(***************************************************************************)
(* Trikono: the tile catalog (tiles.js), the Board (js/board.js), the Game  *)
(* turn state machine (game.js) and the host and client sides of the       *)
(* online game (js/app.js, js/network.js) as a state machine.              *)
(*                                                                         *)
(* JavaScript arrays are modelled as sequences; a JavaScript index i is    *)
(* the sequence index i + 1.  Player indices, hand indices, corner indices *)
(* and rotations keep their JavaScript (0-based) values.                   *)
(***************************************************************************)
EXTENDS Integers, Sequences, FiniteSets, TLC

(***************************************************************************)
(* Bounds of the model                                                     *)
(***************************************************************************)
\* rows 0..MaxRow and columns 0..MaxCol are the cells a place call may name
MaxRow == 0
MaxCol == 1
\* the shuffles of start are drawn from the seeds 1..NumSeeds
NumSeeds == 1
\* the current player's place calls are enumerated while the board holds
\* fewer cells than this
MaxBoard == 2
\* a place call names one of the first FirstSlots hand slots or an index
\* outside the hand
FirstSlots == 2
\* the deals of DealSpec are drawn from the seeds 1..DealSeeds
DealSeeds == 128
\* BoardSpec names the cells of the rows -RegionRows..RegionRows and of the
\* columns 0..RegionCols
RegionRows == 1
RegionCols == 3
\* BoardSpec builds every board of fewer cells than this out of its tiles, and
\* larger boards out of the tile (0,0,0) alone
MixedCells == 2
\* the remote peers of NetSpec are the first NumPeers peer ids
NumPeers == 2
\* a message is sent to the host while fewer than this are in flight
MaxInFlight == 1
\* in NetSpec the draw buttons are pressed while fewer tiles than this have
\* left the pool
MaxDrawn == 1
\* in NetSpec a cell is clicked while the board of the host holds fewer cells
\* than this
MaxNetBoard == 1
\* in NetSpec a click places one of the first NetSlots hand slots
NetSlots == 1
\* the shuffles of NetSpec are drawn from the seeds 1..NetSeeds
NetSeeds == 2

(***************************************************************************)
(* Program constants                                                       *)
(***************************************************************************)
MaxPip == 5
MaxPlayers == 4
MinPlayers == 2
SmallGame == 2
BigHand == 9
SmallHand == 7
DrawPenalty == 5
PassPenalty == 10
EmptyHandBonus == 25
ZeroTripleScore == 40
TripleBonus == 10
BridgeBonus == 40
HexBonus1 == 50
HexBonus2 == 60
HexBonus3 == 70

(***************************************************************************)
(* tiles.js                                                                *)
(***************************************************************************)
\* the three nested loops of generateAll, each as the sequence of the values
\* it pushes: c from b, b from a, a from 0
RECURSIVE genLoopC(_, _, _)
genLoopC(a, b, c) ==
    IF c > MaxPip THEN <<>> ELSE <<<<a, b, c>>>> \o genLoopC(a, b, c + 1)

RECURSIVE genLoopB(_, _)
genLoopB(a, b) ==
    IF b > MaxPip THEN <<>> ELSE genLoopC(a, b, b) \o genLoopB(a, b + 1)

RECURSIVE genLoopA(_)
genLoopA(a) ==
    IF a > MaxPip THEN <<>> ELSE genLoopB(a, a) \o genLoopA(a + 1)

\* a faulty generateAll that pushes the values as [c, b, a]
generateAllDescending ==
    LET pushed == genLoopA(0)
    IN  [i \in 1..Len(pushed) |->
            [id |-> i - 1, values |-> <<pushed[i][3], pushed[i][2], pushed[i][1]>>]]

\* tiles.push({id: id++, values: [a, b, c]}): the id of a tile is the number
\* of tiles pushed before it
generateAll ==
    LET pushed == genLoopA(0)
    IN  [i \in 1..Len(pushed) |-> [id |-> i - 1, values |-> pushed[i]]]

\* a faulty getPlacedValues that exchanges two corners for rotation 1
getPlacedValuesMirrored(values, rotation) ==
    LET a == values[1]
        b == values[2]
        c == values[3]
    IN  IF rotation = 0 THEN <<a, b, c>>
        ELSE IF rotation = 1 THEN <<a, c, b>>
        ELSE <<b, c, a>>

\* the extra isUp argument the callers pass is ignored by the function
getPlacedValues(values, rotation) ==
    LET a == values[1]
        b == values[2]
        c == values[3]
    IN  IF rotation = 0 THEN <<a, b, c>>
        ELSE IF rotation = 1 THEN <<c, a, b>>
        ELSE <<b, c, a>>

tileSum(values) == values[1] + values[2] + values[3]

isTriple(values) == values[1] = values[2] /\ values[2] = values[3]

\* Math.random() of shuffleArray: a linear congruential stream, one step per
\* loop iteration; floor(random * (i + 1)) is the stream value mod (i + 1)
nextRandom(x) == (x * 75 + 74) % 65537

swap(a, i, j) == [a EXCEPT ![i] = a[j], ![j] = a[i]]

\* one iteration of the loop of shuffleArray on the pair <<a, x>> of the array
\* and the random stream: j = floor(random * (i + 1)), then a[i] and a[j]
\* change places
shuffleStep(st, i) ==
    LET x1 == nextRandom(st[2])
        j == x1 % (i + 1)
    IN  <<swap(st[1], i + 1, j + 1), x1>>

\* Fisher-Yates: the iterations i = hi, hi - 1, ..., lo of the loop, in that
\* order.  They are evaluated as two halves, which keeps the evaluation
\* shallow; the test of the stream value never holds (the stream is never
\* negative) and makes the first half finish before the second starts
RECURSIVE shuffleLoop(_, _, _)
shuffleLoop(st, hi, lo) ==
    IF hi < lo THEN st
    ELSE IF hi = lo THEN shuffleStep(st, hi)
    ELSE LET mid == (hi + lo) \div 2
             first == shuffleLoop(st, hi, mid + 1)
         IN  IF first[2] < 0 THEN first ELSE shuffleLoop(first, mid, lo)

\* for (let i = a.length - 1; i > 0; i--) on a copy of arr
shuffleArray(arr, seed) == shuffleLoop(<<arr, seed>>, Len(arr) - 1, 1)[1]

\* a tile object in a hand or in the pool is represented by its id: the
\* objects are created once by generateAll and never modified
valuesOf(tileId) == generateAll[tileId + 1].values

\* Tiles.shuffleArray(Tiles.generateAll()) under each random stream, as ids
shuffledCatalog ==
    [seed \in 1..(IF NumSeeds > DealSeeds THEN NumSeeds ELSE DealSeeds) |->
        LET shuffled == shuffleArray(generateAll, seed)
        IN  [i \in 1..Len(generateAll) |-> shuffled[i].id]]

(***************************************************************************)
(* js/board.js                                                             *)
(***************************************************************************)
UP_NEIGHBORS ==
    << [dr |-> 0, dc |-> -1, my |-> <<0, 2>>, their |-> <<2, 0>>],
       [dr |-> 0, dc |-> 1, my |-> <<0, 1>>, their |-> <<1, 0>>],
       [dr |-> 1, dc |-> 0, my |-> <<2, 1>>, their |-> <<1, 2>>] >>

DOWN_NEIGHBORS ==
    << [dr |-> 0, dc |-> -1, my |-> <<1, 0>>, their |-> <<0, 1>>],
       [dr |-> 0, dc |-> 1, my |-> <<2, 0>>, their |-> <<0, 2>>],
       [dr |-> -1, dc |-> 0, my |-> <<1, 2>>, their |-> <<2, 1>>] >>

isUp(r, c) == ((((r + c) % 2) + 2) % 2) = 0

\* the Map cells: a function from the keys <<r, c>> of the occupied cells
EmptyCells == [k \in {} |-> [values |-> <<0, 0, 0>>, tileId |-> 0, playerId |-> 0]]

has(cells, r, c) == <<r, c>> \in DOMAIN cells

get(cells, r, c) == cells[<<r, c>>]

boardPlace(cells, r, c, values, tileId, playerId) ==
    [k \in DOMAIN cells \cup {<<r, c>>} |->
        IF k = <<r, c>>
        THEN [values |-> values, tileId |-> tileId, playerId |-> playerId]
        ELSE cells[k]]

size(cells) == Cardinality(DOMAIN cells)

\* serialize(): the plain object that holds, for every key of the Map, the
\* entry's value; an object is modelled as the set of its <<key, value>> pairs
serialize(cells) == {<<k, cells[k]>> : k \in DOMAIN cells}

\* the loop of deserialize: this.cells.set(k, v) for every entry of obj
setEntries(cells, obj) ==
    [k \in DOMAIN cells \cup {e[1] : e \in obj} |->
        IF \E e \in obj : e[1] = k
        THEN (CHOOSE e \in obj : e[1] = k)[2]
        ELSE cells[k]]

\* a faulty deserialize without this.cells.clear()
deserializeKept(cells, obj) == setEntries(cells, obj)

\* deserialize(obj) on the Map cells: clear, then set every entry
deserialize(cells, obj) == setEntries(EmptyCells, obj)

neighborDefs(r, c) == IF isUp(r, c) THEN UP_NEIGHBORS ELSE DOWN_NEIGHBORS

neighbors(r, c) ==
    [i \in 1..3 |->
        LET n == neighborDefs(r, c)[i]
        IN  [row |-> r + n.dr, col |-> c + n.dc, my |-> n.my, their |-> n.their]]

\* one neighbour of the loop of isValid: every index pair of an occupied
\* neighbour carries equal values
edgeMatches(cells, n, values) ==
    \A i \in 1..Len(n.my) :
        values[n.my[i] + 1] = get(cells, n.row, n.col).values[n.their[i] + 1]

\* a faulty isValid that compares only the first index pair of each edge
isValidLoose(cells, r, c, values) ==
    IF has(cells, r, c) THEN FALSE
    ELSE IF size(cells) = 0 THEN TRUE
    ELSE LET ns == neighbors(r, c)
             occ == {i \in 1..3 : has(cells, ns[i].row, ns[i].col)}
         IN  /\ \A i \in occ :
                    values[ns[i].my[1] + 1]
                        = get(cells, ns[i].row, ns[i].col).values[ns[i].their[1] + 1]
             /\ occ # {}

\* a faulty isValid that never sets or returns the flag adjacent
isValidDetached(cells, r, c, values) ==
    IF has(cells, r, c) THEN FALSE
    ELSE IF size(cells) = 0 THEN TRUE
    ELSE LET ns == neighbors(r, c)
             occ == {i \in 1..3 : has(cells, ns[i].row, ns[i].col)}
         IN  \A i \in occ : edgeMatches(cells, ns[i], values)

\* the loop returns false at the first mismatching pair of an occupied
\* neighbour and otherwise returns the flag adjacent
isValid(cells, r, c, values) ==
    IF has(cells, r, c) THEN FALSE
    ELSE IF size(cells) = 0 THEN TRUE
    ELSE LET ns == neighbors(r, c)
             occ == {i \in 1..3 : has(cells, ns[i].row, ns[i].col)}
         IN  /\ \A i \in occ : edgeMatches(cells, ns[i], values)
             /\ occ # {}

\* a faulty frontier that leaves out the neighbour above or below
candidatesInRow(cells) ==
    {<<neighbors(k[1], k[2])[i].row, neighbors(k[1], k[2])[i].col>> :
        <<k, i>> \in (DOMAIN cells) \X (1..2)} \ DOMAIN cells

\* empty cells adjacent to placed tiles (the Set candidates)
candidates(cells) ==
    {<<neighbors(k[1], k[2])[i].row, neighbors(k[1], k[2])[i].col>> :
        <<k, i>> \in (DOMAIN cells) \X (1..3)} \ DOMAIN cells

getValidPlacements(cells, tileValues) ==
    IF size(cells) = 0
    THEN {[row |-> 0, col |-> 0, rotation |-> r,
           values |-> getPlacedValues(tileValues, r)] : r \in 0..2}
    ELSE {[row |-> k[1], col |-> k[2], rotation |-> rot,
           values |-> getPlacedValues(tileValues, rot)] :
             <<k, rot>> \in {<<k, rot>> \in candidates(cells) \X (0..2) :
                 isValid(cells, k[1], k[2], getPlacedValues(tileValues, rot))}}

\* vertex coordinates of the corners [0], [1], [2] of a cell
vertexCoords(r, c) ==
    IF isUp(r, c)
    THEN << [vx |-> c + 1, vy |-> r],
            [vx |-> c + 2, vy |-> r + 1],
            [vx |-> c, vy |-> r + 1] >>
    ELSE << [vx |-> c + 1, vy |-> r + 1],
            [vx |-> c, vy |-> r],
            [vx |-> c + 2, vy |-> r] >>

surroundingCells(vx, vy) ==
    << [r |-> vy, c |-> vx - 1],
       [r |-> vy - 1, c |-> vx - 2],
       [r |-> vy - 1, c |-> vx],
       [r |-> vy - 1, c |-> vx - 1],
       [r |-> vy, c |-> vx],
       [r |-> vy, c |-> vx - 2] >>

isHexagonComplete(cells, vx, vy) ==
    \A i \in 1..6 :
        has(cells, surroundingCells(vx, vy)[i].r, surroundingCells(vx, vy)[i].c)

countCompletedHexagons(cells, r, c) ==
    Cardinality({i \in 1..3 :
        isHexagonComplete(cells, vertexCoords(r, c)[i].vx, vertexCoords(r, c)[i].vy)})

\* a faulty _isBridge that accepts any number of occupied edge-neighbours and
\* looks at the vertex opposite the first of them
isBridgeManyEdges(cells, r, c) ==
    LET nbs == neighbors(r, c)
        occ == {i \in 1..3 : has(cells, nbs[i].row, nbs[i].col)}
    IN  IF occ = {} THEN FALSE
        ELSE LET connIdx == CHOOSE i \in occ : \A j \in occ : i <= j
                 oppMap == IF isUp(r, c) THEN <<1, 2, 0>> ELSE <<2, 1, 0>>
                 oppVert == vertexCoords(r, c)[oppMap[connIdx] + 1]
                 sur == surroundingCells(oppVert.vx, oppVert.vy)
             IN  \E i \in 1..6 :
                     /\ ~(sur[i].r = r /\ sur[i].c = c)
                     /\ has(cells, sur[i].r, sur[i].c)

\* a faulty _isBridge with the opposite-vertex maps of UP and DOWN exchanged
isBridgeSwapped(cells, r, c) ==
    LET nbs == neighbors(r, c)
        occ == {i \in 1..3 : has(cells, nbs[i].row, nbs[i].col)}
    IN  IF Cardinality(occ) # 1 THEN FALSE
        ELSE LET connIdx == CHOOSE i \in occ : TRUE
                 oppMap == IF isUp(r, c) THEN <<2, 1, 0>> ELSE <<1, 2, 0>>
                 oppVert == vertexCoords(r, c)[oppMap[connIdx] + 1]
                 sur == surroundingCells(oppVert.vx, oppVert.vy)
             IN  \E i \in 1..6 :
                     /\ ~(sur[i].r = r /\ sur[i].c = c)
                     /\ has(cells, sur[i].r, sur[i].c)

isBridge(cells, r, c) ==
    LET nbs == neighbors(r, c)
        occ == {i \in 1..3 : has(cells, nbs[i].row, nbs[i].col)}
    IN  IF Cardinality(occ) # 1 THEN FALSE
        ELSE LET connIdx == CHOOSE i \in occ : TRUE
                 oppMap == IF isUp(r, c) THEN <<1, 2, 0>> ELSE <<2, 1, 0>>
                 oppVert == vertexCoords(r, c)[oppMap[connIdx] + 1]
                 sur == surroundingCells(oppVert.vx, oppVert.vy)
             IN  \E i \in 1..6 :
                     /\ ~(sur[i].r = r /\ sur[i].c = c)
                     /\ has(cells, sur[i].r, sur[i].c)

\* a faulty calcScore that adds 10 for every triple, the triple of 0 included
calcScoreStacked(cells, args) ==
    IF Len(args) < 3 THEN [threw |-> TRUE, value |-> 0]
    ELSE LET r == args[1]
             c == args[2]
             values == args[3]
             base == tileSum(values)
             s1 == IF isTriple(values) THEN base + TripleBonus ELSE base
             s2 == IF isBridge(cells, r, c) THEN s1 + BridgeBonus ELSE s1
             hex == countCompletedHexagons(cells, r, c)
             s3 == IF hex = 1 THEN s2 + HexBonus1
                   ELSE IF hex = 2 THEN s2 + HexBonus2
                   ELSE IF hex >= 3 THEN s2 + HexBonus3
                   ELSE s2
         IN  [threw |-> FALSE, value |-> s3]

\* a faulty calcScore that pays a third completed hexagon like the second
calcScoreTwoHexagons(cells, args) ==
    IF Len(args) < 3 THEN [threw |-> TRUE, value |-> 0]
    ELSE LET r == args[1]
             c == args[2]
             values == args[3]
             base == tileSum(values)
             s1 == IF isTriple(values)
                   THEN (IF values[1] = 0 THEN ZeroTripleScore ELSE base + TripleBonus)
                   ELSE base
             s2 == IF isBridge(cells, r, c) THEN s1 + BridgeBonus ELSE s1
             hex == countCompletedHexagons(cells, r, c)
             s3 == IF hex = 1 THEN s2 + HexBonus1
                   ELSE IF hex >= 2 THEN s2 + HexBonus2
                   ELSE s2
         IN  [threw |-> FALSE, value |-> s3]

\* calcScore(r, c, values).  args is the argument list of the call: a
\* JavaScript call binds the parameters to the arguments in order and a
\* parameter without an argument is undefined.  The first statement,
\* Tiles.tileSum(values), reads values[0] and raises a TypeError when values
\* is undefined; threw records that the call raised instead of returning.
calcScore(cells, args) ==
    IF Len(args) < 3 THEN [threw |-> TRUE, value |-> 0]
    ELSE LET r == args[1]
             c == args[2]
             values == args[3]
             base == tileSum(values)
             s1 == IF isTriple(values)
                   THEN (IF values[1] = 0 THEN ZeroTripleScore ELSE base + TripleBonus)
                   ELSE base
             s2 == IF isBridge(cells, r, c) THEN s1 + BridgeBonus ELSE s1
             hex == countCompletedHexagons(cells, r, c)
             s3 == IF hex = 1 THEN s2 + HexBonus1
                   ELSE IF hex = 2 THEN s2 + HexBonus2
                   ELSE IF hex >= 3 THEN s2 + HexBonus3
                   ELSE s2
         IN  [threw |-> FALSE, value |-> s3]

(***************************************************************************)
(* game.js: the state of a Game                                            *)
(***************************************************************************)
VARIABLES
    board,               \* this.board.cells
    players,             \* this.players: records id, name, tiles, score
    pool,                \* this.pool
    currentPlayerIndex,
    phase,               \* "waiting", "playing" or "finished"
    drawnThisTurn,
    winner,
    lastAction,
    call,                \* the operation called last and its player index
    ret,                 \* what that call returned, or that it raised
    peerToPlayer,        \* the host's registry: peer id -> player index
    connections,         \* per remote peer, its connection with the host
    toHost,              \* the messages sent to the host and not yet handled
    stateSent,           \* per remote peer, the last 'state' message sent to it
    replica              \* per remote peer, the game copy of its client

game == <<board, players, pool, currentPlayerIndex, phase, drawnThisTurn,
          winner, lastAction>>

\* the online game: the host's registry, the connections, the messages and
\* the clients' copies
net == <<peerToPlayer, connections, toHost, stateSent, replica>>

vars == <<board, players, pool, currentPlayerIndex, phase, drawnThisTurn,
          winner, lastAction, call, ret, peerToPlayer, connections, toHost,
          stateSent, replica>>

ErrNotInProgress == "Game is not in progress."
ErrNotYourTurn == "Not your turn."
ErrInvalidTile == "Invalid tile."
ErrInvalidPlacement == "Invalid placement."
ErrPoolEmpty == "Pool is empty."
ErrMustDrawFirst == "Draw a tile first."
\* the source writes a long dash where this string has a hyphen
ErrHasValidPlacement == "You have valid placements - play a tile!"

NoAction == [type |-> "null", player |-> -1, row |-> 0, col |-> 0]

\* a result record; the fields a JavaScript result leaves out hold the
\* defaults of NoRet
NoRet == [status |-> "none", error |-> "", score |-> 0, gameOver |-> FALSE,
          winner |-> -1, tile |-> -1, poolSize |-> -1]

Failure(err) == [NoRet EXCEPT !.status = "error", !.error = err]

Raised == [NoRet EXCEPT !.status = "threw"]

Max(a, b) == IF a >= b THEN a ELSE b

Min(a, b) == IF a <= b THEN a ELSE b

\* arr.splice(idx, 1)
removeAt(arr, idx) ==
    [i \in 1..(Len(arr) - 1) |-> IF i <= idx THEN arr[i] ELSE arr[i + 1]]

\* the tiles of a hand, summed
RECURSIVE handSum(_)
handSum(tiles) ==
    IF tiles = <<>> THEN 0 ELSE tileSum(valuesOf(Head(tiles))) + handSum(Tail(tiles))

(***************************************************************************)
(* game.js: start                                                          *)
(***************************************************************************)
\* a faulty hand size that deals 9 tiles whatever the number of players
perPlayerFlat(n) == BigHand

perPlayer(n) == IF n <= SmallGame THEN BigHand ELSE SmallHand

\* the hand of player i after the successive pool.splice(0, perPlayer)
dealtHand(shuffled, i, per) ==
    SubSeq(shuffled, Min(i * per, Len(shuffled)) + 1,
                     Min((i + 1) * per, Len(shuffled)))

\* what the splices leave in the pool
dealtPool(shuffled, n, per) ==
    SubSeq(shuffled, Min(n * per, Len(shuffled)) + 1, Len(shuffled))

\* a faulty inner loop that compares the sums only
RECURSIVE starterHandBySum(_, _, _)
starterHandBySum(i, tiles, st) ==
    IF tiles = <<>> THEN st
    ELSE LET s == tileSum(valuesOf(Head(tiles)))
         IN  IF s > st[2]
             THEN starterHandBySum(i, Tail(tiles), <<i, s, FALSE>>)
             ELSE starterHandBySum(i, Tail(tiles), st)

\* the inner loop of _findStarter over one hand; st = <<best, bestVal, bestTriple>>
RECURSIVE starterHand(_, _, _)
starterHand(i, tiles, st) ==
    IF tiles = <<>> THEN st
    ELSE LET s == tileSum(valuesOf(Head(tiles)))
             trip == isTriple(valuesOf(Head(tiles)))
         IN  IF (trip /\ ~st[3]) \/ (trip = st[3] /\ s > st[2])
             THEN starterHand(i, Tail(tiles), <<i, s, trip>>)
             ELSE starterHand(i, Tail(tiles), st)

\* the outer loop: <<best, bestVal, bestTriple>> after the hands of the
\* players 0..n-1
RECURSIVE starterLoop(_, _)
starterLoop(ps, n) ==
    IF n = 0 THEN <<0, -1, FALSE>>
    ELSE starterHand(n - 1, ps[n].tiles, starterLoop(ps, n - 1))

findStarter(ps) == starterLoop(ps, Len(ps))[1]

(***************************************************************************)
(* game.js: helpers of the actions                                         *)
(***************************************************************************)
\* a faulty _nextTurn that does not wrap around
nextTurnNoWrap(cpi, n) == cpi + 1

\* _nextTurn: the new currentPlayerIndex (the action resets drawnThisTurn)
nextTurn(cpi, n) == (cpi + 1) % n

\* a faulty canPlay that looks at the first hand tile only
canPlayFirst(cells, ps, playerIdx) ==
    IF playerIdx < 0 \/ playerIdx >= Len(ps) THEN FALSE
    ELSE /\ Len(ps[playerIdx + 1].tiles) > 0
         /\ getValidPlacements(cells, valuesOf(ps[playerIdx + 1].tiles[1])) # {}

canPlay(cells, ps, playerIdx) ==
    IF playerIdx < 0 \/ playerIdx >= Len(ps) THEN FALSE
    ELSE \E i \in 1..Len(ps[playerIdx + 1].tiles) :
             getValidPlacements(cells, valuesOf(ps[playerIdx + 1].tiles[i])) # {}

isStalemate(cells, ps, pl) ==
    IF Len(pl) > 0 THEN FALSE
    ELSE \A p \in 1..Len(ps) : \A i \in 1..Len(ps[p].tiles) :
             getValidPlacements(cells, valuesOf(ps[p].tiles[i])) = {}

RECURSIVE bestLoop(_, _, _)
bestLoop(ps, i, best) ==
    IF i >= Len(ps) THEN best
    ELSE bestLoop(ps, i + 1, IF ps[i + 1].score > ps[best + 1].score THEN i ELSE best)

bestPlayer(ps) == bestLoop(ps, 1, 0)

\* a faulty draw penalty without the floor at 0
drawScoreNoFloor(score) == score - DrawPenalty

\* Math.max(0, score - 5)
drawScore(score) == Max(0, score - DrawPenalty)

\* a faulty pass penalty without the floor at 0
passScoreNoFloor(score) == score - PassPenalty

\* Math.max(0, score - 10)
passScore(score) == Max(0, score - PassPenalty)

\* a faulty pop that leaves the tile in the pool
poolAfterPopKept(pl) == pl

\* what pool.pop() leaves
poolAfterPop(pl) == SubSeq(pl, 1, Len(pl) - 1)

\* the checks of placeTile that come before the hand tile is read
placeGuard(playerIdx, tileIdx) ==
    IF phase # "playing" THEN ErrNotInProgress
    ELSE IF playerIdx # currentPlayerIndex THEN ErrNotYourTurn
    ELSE IF tileIdx < 0 \/ tileIdx >= Len(players[playerIdx + 1].tiles)
         THEN ErrInvalidTile
    ELSE ""

\* faulty checks of drawTile that let any seated player draw
drawGuardNoTurn(playerIdx) ==
    IF phase # "playing" THEN ErrNotInProgress
    ELSE IF playerIdx < 0 \/ playerIdx >= Len(players) THEN ErrNotYourTurn
    ELSE IF Len(pool) = 0 THEN ErrPoolEmpty
    ELSE ""

\* the checks of drawTile, in order; "" when the draw goes ahead
drawGuard(playerIdx) ==
    IF phase # "playing" THEN ErrNotInProgress
    ELSE IF playerIdx # currentPlayerIndex THEN ErrNotYourTurn
    ELSE IF Len(pool) = 0 THEN ErrPoolEmpty
    ELSE ""

\* faulty checks of passTurn that do not ask for a draw
passGuardNoDraw(playerIdx) ==
    IF phase # "playing" THEN ErrNotInProgress
    ELSE IF playerIdx # currentPlayerIndex THEN ErrNotYourTurn
    ELSE IF canPlay(board, players, playerIdx) THEN ErrHasValidPlacement
    ELSE ""

\* the checks of passTurn, in order; "" when the pass goes ahead
passGuard(playerIdx) ==
    IF phase # "playing" THEN ErrNotInProgress
    ELSE IF playerIdx # currentPlayerIndex THEN ErrNotYourTurn
    ELSE IF ~drawnThisTurn /\ Len(pool) > 0 THEN ErrMustDrawFirst
    ELSE IF canPlay(board, players, playerIdx) THEN ErrHasValidPlacement
    ELSE ""

\* a faulty early return that records the call in lastAction
RejectRecorded(err) ==
    /\ ret' = Failure(err)
    /\ lastAction' = [type |-> "rejected", player |-> call'.player]
    /\ UNCHANGED <<board, players, pool, currentPlayerIndex, phase,
                   drawnThisTurn, winner>>

\* an early return {success: false, error}: nothing was assigned before it
Reject(err) ==
    /\ ret' = Failure(err)
    /\ UNCHANGED game

\* the tile sums of every hand but that of the player at index skip
RECURSIVE othersSum(_, _, _)
othersSum(ps, i, skip) ==
    IF i >= Len(ps) THEN 0
    ELSE (IF i # skip THEN handSum(ps[i + 1].tiles) ELSE 0) + othersSum(ps, i + 1, skip)

(***************************************************************************)
(* js/app.js, js/network.js: the state of the online game before anybody   *)
(* has created or joined it                                                *)
(***************************************************************************)
\* the peer id under which the host registers itself
HostPeer == "host"

\* the ids of the remote peers
PeerIds == <<"peer1", "peer2", "peer3", "peer4">>

Peers == {PeerIds[i] : i \in 1..NumPeers}

\* no 'state' message was sent to the peer yet
NoMessage == [type |-> "none"]

\* this.game and this.viewState of a client are null before its first 'state'
\* message
NoReplica == [loaded |-> FALSE]

\* the registry new Map() of the host
NoPeers == [p \in {} |-> 0]

(***************************************************************************)
(* game.js: the operations                                                 *)
(***************************************************************************)
Init ==
    /\ board = EmptyCells
    /\ players = <<>>
    /\ pool = <<>>
    /\ currentPlayerIndex = 0
    /\ phase = "waiting"
    /\ drawnThisTurn = FALSE
    /\ winner = -1
    /\ lastAction = NoAction
    /\ call = [op |-> "new", player |-> -1]
    /\ ret = NoRet
    /\ peerToPlayer = NoPeers
    /\ connections = [p \in Peers |-> "none"]
    /\ toHost = <<>>
    /\ stateSent = [p \in Peers |-> NoMessage]
    /\ replica = [p \in Peers |-> NoReplica]

\* addPlayer(id, name), called by the lobby (a join is refused once 4 players
\* sit or the game has started); the id and the name are the seat number
AddPlayer ==
    /\ phase = "waiting"
    /\ Len(players) < MaxPlayers
    /\ players' = Append(players,
           [id |-> Len(players), name |-> Len(players), tiles |-> <<>>, score |-> 0])
    /\ call' = [op |-> "addPlayer", player |-> Len(players)]
    /\ ret' = NoRet
    /\ UNCHANGED <<board, pool, currentPlayerIndex, phase, drawnThisTurn,
                   winner, lastAction>>

\* start().  The function tests nothing itself: the two guards are those of
\* its caller, the lobby's start button (app.js _startGame), which is shown
\* only before the game starts and returns when fewer than 2 players sit
Start(seed) ==
    /\ phase = "waiting"
    /\ Len(players) >= MinPlayers
    /\ LET shuffled == shuffledCatalog[seed]
           per == perPlayer(Len(players))
           dealt == [i \in 1..Len(players) |->
                        [players[i] EXCEPT !.tiles = dealtHand(shuffled, i - 1, per),
                                           !.score = 0]]
       IN  /\ players' = dealt
           /\ pool' = dealtPool(shuffled, Len(players), per)
           /\ currentPlayerIndex' = findStarter(dealt)
    /\ phase' = "playing"
    /\ drawnThisTurn' = FALSE
    /\ winner' = -1
    /\ call' = [op |-> "start", player |-> -1]
    /\ ret' = NoRet
    /\ UNCHANGED <<board, lastAction>>

PlaceTile(playerIdx, tileIdx, row, col, rotation) ==
    /\ call' = [op |-> "place", player |-> playerIdx, tileIdx |-> tileIdx,
                row |-> row, col |-> col, rotation |-> rotation]
    /\ IF placeGuard(playerIdx, tileIdx) # ""
       THEN Reject(placeGuard(playerIdx, tileIdx))
       ELSE LET player == players[playerIdx + 1]
                tile == player.tiles[tileIdx + 1]
                values == getPlacedValues(valuesOf(tile), rotation)
            IN  IF ~isValid(board, row, col, values)
                THEN Reject(ErrInvalidPlacement)
                ELSE LET placed == boardPlace(board, row, col, values, tile, playerIdx)
                         \* this.board.calcScore(values): one argument
                         sc == calcScore(placed, <<values>>)
                         hand == removeAt(player.tiles, tileIdx)
                         bonus == IF hand = <<>>
                                  THEN EmptyHandBonus + othersSum(players, 0, playerIdx)
                                  ELSE 0
                     IN  IF sc.threw
                         THEN \* the TypeError leaves placeTile after board.place
                              /\ board' = placed
                              /\ ret' = Raised
                              /\ UNCHANGED <<players, pool, currentPlayerIndex, phase,
                                             drawnThisTurn, winner, lastAction>>
                         ELSE /\ board' = placed
                              /\ players' = [players EXCEPT ![playerIdx + 1] =
                                     [@ EXCEPT !.score = @ + sc.value + bonus,
                                               !.tiles = hand]]
                              /\ lastAction' = [type |-> "place", player |-> playerIdx,
                                                row |-> row, col |-> col]
                              /\ IF hand = <<>>
                                 THEN /\ phase' = "finished"
                                      /\ winner' = playerIdx
                                      /\ ret' = [NoRet EXCEPT !.status = "ok",
                                                    !.score = sc.value,
                                                    !.gameOver = TRUE,
                                                    !.winner = playerIdx]
                                      /\ UNCHANGED <<currentPlayerIndex, drawnThisTurn>>
                                 ELSE /\ currentPlayerIndex' =
                                            nextTurn(currentPlayerIndex, Len(players))
                                      /\ drawnThisTurn' = FALSE
                                      /\ ret' = [NoRet EXCEPT !.status = "ok",
                                                    !.score = sc.value]
                                      /\ UNCHANGED <<phase, winner>>
                              /\ UNCHANGED pool

DrawTile(playerIdx) ==
    /\ call' = [op |-> "draw", player |-> playerIdx]
    /\ IF drawGuard(playerIdx) # ""
       THEN Reject(drawGuard(playerIdx))
       ELSE LET tile == pool[Len(pool)]
            IN  /\ pool' = poolAfterPop(pool)
                /\ players' = [players EXCEPT ![playerIdx + 1] =
                       [@ EXCEPT !.tiles = Append(@, tile),
                                 !.score = drawScore(@)]]
                /\ drawnThisTurn' = TRUE
                /\ lastAction' = [type |-> "draw", player |-> playerIdx]
                /\ ret' = [NoRet EXCEPT !.status = "ok", !.tile = tile,
                              !.poolSize = Len(pool')]
                /\ UNCHANGED <<board, currentPlayerIndex, phase, winner>>

PassTurn(playerIdx) ==
    /\ call' = [op |-> "pass", player |-> playerIdx]
    /\ IF passGuard(playerIdx) # ""
       THEN Reject(passGuard(playerIdx))
       ELSE LET after == [players EXCEPT ![playerIdx + 1] =
                             [@ EXCEPT !.score = passScore(@)]]
            IN  /\ players' = after
                /\ lastAction' = [type |-> "pass", player |-> playerIdx]
                /\ currentPlayerIndex' = nextTurn(currentPlayerIndex, Len(players))
                /\ drawnThisTurn' = FALSE
                /\ IF isStalemate(board, after, pool)
                   THEN /\ phase' = "finished"
                        /\ winner' = bestPlayer(after)
                        /\ ret' = [NoRet EXCEPT !.status = "ok", !.gameOver = TRUE,
                                      !.winner = bestPlayer(after)]
                   ELSE /\ ret' = [NoRet EXCEPT !.status = "ok"]
                        /\ UNCHANGED <<phase, winner>>
                /\ UNCHANGED <<board, pool>>

(***************************************************************************)
(* game.js: serialisation                                                  *)
(***************************************************************************)
\* a faulty serializeForPlayer that hands out the tiles of the current player
serializeForPlayerOfTurn(ps, pl, playerIdx) ==
    [board |-> serialize(board),
     players |-> [i \in 1..Len(ps) |->
                    [id |-> ps[i].id, name |-> ps[i].name,
                     tileCount |-> Len(ps[i].tiles), score |-> ps[i].score]],
     currentPlayerIndex |-> currentPlayerIndex,
     phase |-> phase,
     poolSize |-> Len(pl),
     winner |-> winner,
     drawnThisTurn |-> drawnThisTurn,
     lastAction |-> lastAction,
     yourIndex |-> playerIdx,
     yourTiles |-> IF currentPlayerIndex < Len(ps)
                   THEN ps[currentPlayerIndex + 1].tiles
                   ELSE <<>>]

\* serializeForPlayer(playerIdx) of a game whose players and pool are ps and
\* pl and whose other fields are those of the state
serializeForPlayer(ps, pl, playerIdx) ==
    [board |-> serialize(board),
     players |-> [i \in 1..Len(ps) |->
                    [id |-> ps[i].id, name |-> ps[i].name,
                     tileCount |-> Len(ps[i].tiles), score |-> ps[i].score]],
     currentPlayerIndex |-> currentPlayerIndex,
     phase |-> phase,
     poolSize |-> Len(pl),
     winner |-> winner,
     drawnThisTurn |-> drawnThisTurn,
     lastAction |-> lastAction,
     yourIndex |-> playerIdx,
     yourTiles |-> IF playerIdx >= 0 /\ playerIdx < Len(ps)
                   THEN ps[playerIdx + 1].tiles
                   ELSE <<>>]

\* a faulty serializeFull that leaves drawnThisTurn out of the record, which
\* loadFull then reads as false
serializeFullNoDrawn ==
    [board |-> serialize(board),
     players |-> [i \in 1..Len(players) |->
                    [id |-> players[i].id, name |-> players[i].name,
                     tiles |-> players[i].tiles, score |-> players[i].score]],
     pool |-> pool,
     currentPlayerIndex |-> currentPlayerIndex,
     phase |-> phase,
     winner |-> winner,
     drawnThisTurn |-> FALSE,
     lastAction |-> lastAction]

serializeFull ==
    [board |-> serialize(board),
     players |-> [i \in 1..Len(players) |->
                    [id |-> players[i].id, name |-> players[i].name,
                     tiles |-> players[i].tiles, score |-> players[i].score]],
     pool |-> pool,
     currentPlayerIndex |-> currentPlayerIndex,
     phase |-> phase,
     winner |-> winner,
     drawnThisTurn |-> drawnThisTurn,
     lastAction |-> lastAction]

\* what a function that is not an action of a player returned
Returned(v) == [status |-> "value", value |-> v]

SerializeForPlayer(playerIdx) ==
    /\ call' = [op |-> "serializeForPlayer", player |-> playerIdx]
    /\ ret' = Returned(serializeForPlayer(players, pool, playerIdx))
    /\ UNCHANGED game

\* a faulty serializeFull that moves the pool into the record
SerializeFullDraining ==
    /\ call' = [op |-> "serializeFull", player |-> -1]
    /\ ret' = Returned(serializeFull)
    /\ pool' = <<>>
    /\ UNCHANGED <<board, players, currentPlayerIndex, phase, drawnThisTurn,
                   winner, lastAction>>

SerializeFull ==
    /\ call' = [op |-> "serializeFull", player |-> -1]
    /\ ret' = Returned(serializeFull)
    /\ UNCHANGED game

\* loadFull(data) of a fresh Game, which then stands where the game stood;
\* no field of the fresh Game depends on the state before the call
LoadFull(data) ==
    /\ board' = deserialize(EmptyCells, data.board)
    /\ players' = data.players
    /\ pool' = data.pool
    /\ currentPlayerIndex' = data.currentPlayerIndex
    /\ phase' = data.phase
    /\ winner' = data.winner
    /\ drawnThisTurn' = (data.drawnThisTurn \/ FALSE)
    /\ lastAction' = data.lastAction
    /\ call' = [op |-> "loadFull", player |-> -1]
    /\ ret' = NoRet

(***************************************************************************)
(* The inputs of the calls                                                 *)
(***************************************************************************)
\* every seat and one index past the last seat
PlayerInputs == 0..Len(players)

\* the hand slots a place call of playerIdx names: the first slots, one index
\* below the hand and one past it
TileIdxInputs(playerIdx) ==
    IF playerIdx < Len(players)
    THEN LET n == Len(players[playerIdx + 1].tiles)
         IN  {i \in -1..n : i < FirstSlots \/ i >= n}
    ELSE {0}

Grid == (0..MaxRow) \X (0..MaxCol)

\* 3 stands for every rotation other than 0, 1 and 2
RotationInputs == 0..3

\* the place calls of the player whose turn it is
PlaceByCurrent ==
    /\ currentPlayerIndex < Len(players)
    /\ size(board) < MaxBoard
    /\ \E tileIdx \in TileIdxInputs(currentPlayerIndex),
          cell \in Grid, rotation \in RotationInputs :
          PlaceTile(currentPlayerIndex, tileIdx, cell[1], cell[2], rotation)

\* the place calls of everybody else
PlaceByOther ==
    \E playerIdx \in PlayerInputs \ {currentPlayerIndex} :
       PlaceTile(playerIdx, 0, 0, 0, 0)

\* a Game on its own: nothing is online
Next ==
    \/ AddPlayer /\ UNCHANGED net
    \/ \E seed \in 1..NumSeeds : Start(seed) /\ UNCHANGED net
    \/ PlaceByCurrent /\ UNCHANGED net
    \/ PlaceByOther /\ UNCHANGED net
    \/ \E playerIdx \in PlayerInputs : DrawTile(playerIdx) /\ UNCHANGED net
    \/ \E playerIdx \in PlayerInputs : PassTurn(playerIdx) /\ UNCHANGED net

Spec == Init /\ [][Next]_vars

\* the lobby and start alone, over many shuffles
DealNext ==
    \/ AddPlayer /\ UNCHANGED net
    \/ \E seed \in 1..DealSeeds : Start(seed) /\ UNCHANGED net

DealSpec == Init /\ [][DealNext]_vars

\* the game played by the player whose turn it is, its snapshots, and a fresh
\* Game that loads the full snapshot just taken
LoadSnapshot ==
    /\ call.op = "serializeFull"
    /\ LoadFull(ret.value)

SnapshotNext ==
    \/ AddPlayer /\ UNCHANGED net
    \/ \E seed \in 1..NumSeeds : Start(seed) /\ UNCHANGED net
    \/ PlaceByCurrent /\ UNCHANGED net
    \/ DrawTile(currentPlayerIndex) /\ UNCHANGED net
    \/ PassTurn(currentPlayerIndex) /\ UNCHANGED net
    \/ \E playerIdx \in PlayerInputs : SerializeForPlayer(playerIdx) /\ UNCHANGED net
    \/ SerializeFull /\ UNCHANGED net
    \/ LoadSnapshot /\ UNCHANGED net

SnapshotSpec == Init /\ [][SnapshotNext]_vars

(***************************************************************************)
(* The Board alone: boards built by legal placements, and its functions    *)
(* applied to them                                                         *)
(***************************************************************************)
Region == ((0 - RegionRows)..RegionRows) \X (0..RegionCols)

\* the canonical values of the tiles BoardSpec places
BoardTileValues == {<<0, 0, 0>>, <<0, 0, 1>>, <<1, 2, 3>>, <<5, 5, 5>>}

\* the oriented values isValid is asked about
ProbeValues ==
    {getPlacedValues(v, rot) : <<v, rot>> \in {<<0, 0, 0>>, <<0, 0, 1>>} \X (0..2)}

tileIdOf(values) == CHOOSE id \in 0..(Len(generateAll) - 1) : valuesOf(id) = values

\* the part of placeTile that concerns the Board: orient the tile, ask
\* isValid, place
BoardPlaceTile(tileValues, row, col, rotation) ==
    LET values == getPlacedValues(tileValues, rotation)
    IN  /\ \/ size(board) < MixedCells
           \/ /\ tileValues = <<0, 0, 0>>
              /\ \A k \in DOMAIN board : board[k].values = <<0, 0, 0>>
        /\ isValid(board, row, col, values)
        /\ board' = boardPlace(board, row, col, values, tileIdOf(tileValues), 0)
        /\ call' = [op |-> "boardPlace", player |-> -1]
        /\ ret' = NoRet
        /\ UNCHANGED <<players, pool, currentPlayerIndex, phase, drawnThisTurn,
                       winner, lastAction>>

\* board.isValid(row, col, values)
ProbeIsValid(row, col, values) ==
    /\ call' = [op |-> "isValid", player |-> -1, row |-> row, col |-> col,
                values |-> values]
    /\ ret' = Returned(isValid(board, row, col, values))
    /\ UNCHANGED game

\* board.getValidPlacements(tileValues)
ProbeGetValidPlacements(tileValues) ==
    /\ call' = [op |-> "getValidPlacements", player |-> -1, values |-> tileValues]
    /\ ret' = Returned(getValidPlacements(board, tileValues))
    /\ UNCHANGED game

\* board.calcScore(row, col, values) for the tile that lies at the cell
ProbeCalcScore(row, col) ==
    /\ has(board, row, col)
    /\ call' = [op |-> "calcScore", player |-> -1, row |-> row, col |-> col,
                values |-> get(board, row, col).values]
    /\ ret' = Returned(calcScore(board, <<row, col, get(board, row, col).values>>))
    /\ UNCHANGED game

\* the objects deserialize is given: the serialised empty board, the
\* serialised board of each single tile that lies on the board, and the
\* serialised board itself
SerializedBoards ==
    {serialize(EmptyCells), serialize(board)}
        \cup {serialize([k \in {cell} |-> board[k]]) : cell \in DOMAIN board}

\* board.deserialize(obj); had is the number of cells before the call
BoardDeserialize(obj) ==
    /\ board' = deserialize(board, obj)
    /\ call' = [op |-> "deserialize", player |-> -1, obj |-> obj,
                had |-> size(board)]
    /\ ret' = NoRet
    /\ UNCHANGED <<players, pool, currentPlayerIndex, phase, drawnThisTurn,
                   winner, lastAction>>

BoardNext ==
    \/ \E obj \in SerializedBoards : BoardDeserialize(obj) /\ UNCHANGED net
    \/ \E tileValues \in BoardTileValues, cell \in Region, rotation \in 0..2 :
          BoardPlaceTile(tileValues, cell[1], cell[2], rotation) /\ UNCHANGED net
    \/ \E cell \in Region, values \in ProbeValues :
          ProbeIsValid(cell[1], cell[2], values) /\ UNCHANGED net
    \/ \E tileValues \in BoardTileValues :
          ProbeGetValidPlacements(tileValues) /\ UNCHANGED net
    \/ \E cell \in Region : ProbeCalcScore(cell[1], cell[2]) /\ UNCHANGED net

BoardSpec == Init /\ [][BoardNext]_vars

(***************************************************************************)
(* Properties                                                              *)
(***************************************************************************)
\* the step is a call of placeTile, drawTile or passTurn
TurnCall == call'.op \in {"place", "draw", "pass"}

RejectedChangesNothing ==
    [][(TurnCall /\ ret'.status = "error") => UNCHANGED game]_vars

\* a place of the current player was rejected on a board that holds a tile
RejectedPlacement ==
    /\ call.op = "place"
    /\ ret = Failure(ErrInvalidPlacement)
    /\ size(board) > 0

\* C3: every call of place, draw or pass returns a result record; none raises
\* a fault or stops part-way through its effects.
NoFault == ret.status # "threw"

\* C4: a place, draw or pass is rejected with "Game is not in progress." when
\* phase is not playing and otherwise with "Not your turn." when the acting
\* player is not currentPlayerIndex, and the game state does not change.
TurnGuard ==
    [][TurnCall =>
         /\ phase # "playing" =>
                ret' = Failure(ErrNotInProgress) /\ UNCHANGED game
         /\ (phase = "playing" /\ call'.player # currentPlayerIndex) =>
                ret' = Failure(ErrNotYourTurn) /\ UNCHANGED game]_vars

\* a draw by a player other than the current one was turned away while tiles
\* were left in the pool
OutOfTurnDraw ==
    /\ phase = "playing"
    /\ call.op = "draw"
    /\ call.player # currentPlayerIndex
    /\ call.player < Len(players)
    /\ ret = Failure(ErrNotYourTurn)
    /\ Len(pool) > 0

\* C6: a place that is not rejected succeeds: it stores the oriented values of
\* the hand tile at handIndex in one new cell, removes exactly that tile from
\* the hand (the others keep their order), raises the player's score by
\* calcScore(cell, values) on the board after the placement (exactly, when
\* tiles stay in the hand) and returns that amount as score.
PlaceCommits ==
    [][(call'.op = "place" /\ ret'.status # "error") =>
         LET p == call'.player + 1
             added == DOMAIN board' \ DOMAIN board
         IN  /\ ret'.status = "ok"
             /\ \E k \in added : \E tileIdx \in 0..(Len(players[p].tiles) - 1) :
                  LET amount == calcScore(board', <<k[1], k[2], board'[k].values>>).value
                  IN  /\ added = {k}
                      /\ \A c \in DOMAIN board : board'[c] = board[c]
                      /\ \E rot \in 0..2 :
                            board'[k].values
                              = getPlacedValues(valuesOf(players[p].tiles[tileIdx + 1]), rot)
                      /\ players'[p].tiles = removeAt(players[p].tiles, tileIdx)
                      /\ IF players'[p].tiles # <<>>
                         THEN players'[p].score = players[p].score + amount
                         ELSE players'[p].score >= players[p].score + amount
                      /\ ret'.score = amount]_vars

\* C8: currentPlayerIndex changes only in a successful place that leaves tiles
\* in the hand and in a successful pass; both move it to
\* (currentPlayerIndex + 1) mod playerCount and reset drawnThisTurn; a draw and
\* a rejected call leave it unchanged.
RoundRobin ==
    [][TurnCall =>
         LET advanced == /\ currentPlayerIndex'
                              = (currentPlayerIndex + 1) % Len(players)
                         /\ drawnThisTurn' = FALSE
         IN  /\ currentPlayerIndex' # currentPlayerIndex =>
                    /\ ret'.status = "ok"
                    /\ call'.op \in {"place", "pass"}
                    /\ call'.op = "place" => players'[call'.player + 1].tiles # <<>>
                    /\ advanced
             /\ (ret'.status = "ok" /\ call'.op = "pass") => advanced
             /\ (ret'.status = "ok" /\ call'.op = "place"
                   /\ players'[call'.player + 1].tiles # <<>>) => advanced
             /\ (call'.op = "draw" \/ ret'.status = "error") =>
                    currentPlayerIndex' = currentPlayerIndex]_vars

\* a successful pass of the last seat handed the turn to seat 0
PassWrapped ==
    /\ call.op = "pass"
    /\ ret.status = "ok"
    /\ call.player = Len(players) - 1
    /\ currentPlayerIndex = 0
    /\ ~drawnThisTurn

\* C9: a draw by the current player while playing fails with "Pool is empty."
\* iff the pool is empty; otherwise it succeeds whatever drawnThisTurn is,
\* moves exactly one tile from the pool to the end of the hand, returns the new
\* pool size, sets the score to max(0, score - 5) and drawnThisTurn to true.
DrawContract ==
    [][(call'.op = "draw" /\ phase = "playing"
          /\ call'.player = currentPlayerIndex) =>
         LET p == call'.player + 1
         IN  IF Len(pool) = 0
             THEN ret' = Failure(ErrPoolEmpty)
             ELSE /\ ret'.status = "ok"
                  /\ \E i \in 1..Len(pool) :
                        /\ pool' = [j \in 1..(Len(pool) - 1) |->
                                       IF j < i THEN pool[j] ELSE pool[j + 1]]
                        /\ players'[p].tiles = Append(players[p].tiles, pool[i])
                  /\ ret'.poolSize = Len(pool')
                  /\ players'[p].score
                        = (IF players[p].score - 5 > 0 THEN players[p].score - 5 ELSE 0)
                  /\ drawnThisTurn' = TRUE]_vars

\* a draw took the last tile of the pool in a turn that had drawn before
LastTileDrawn ==
    /\ call.op = "draw"
    /\ ret.status = "ok"
    /\ ret.poolSize = 0
    /\ Len(pool) = 0
    /\ drawnThisTurn

\* C10: every player's score is at least 0 in every reachable state, and the
\* amount a placement adds for any tile on the board is at least 0.
ScoresNonNegative ==
    /\ \A i \in 1..Len(players) : players[i].score >= 0
    /\ \A k \in DOMAIN board :
          calcScore(board, <<k[1], k[2], board[k].values>>).value >= 0

\* a player with no points has drawn and then passed
PenalisedAtZero ==
    /\ lastAction.type = "pass"
    /\ players[lastAction.player + 1].score = 0
    /\ Len(players[lastAction.player + 1].tiles)
          > perPlayer(Len(players))

\* the step is a pass of the player whose turn it is, while playing
PassByCurrent ==
    /\ call'.op = "pass"
    /\ phase = "playing"
    /\ call'.player = currentPlayerIndex

\* the hand of the current player holds a tile with an entry in
\* getValidPlacements
HoldsPlayableTile ==
    \E i \in 1..Len(players[currentPlayerIndex + 1].tiles) :
        getValidPlacements(board,
            valuesOf(players[currentPlayerIndex + 1].tiles[i])) # {}

\* C11 as stated: a pass by the current player while playing is rejected with
\* "You have valid placements" in every state in which the hand holds a tile
\* with an entry in getValidPlacements.
PassRefusedWhenPlayable ==
    [][(PassByCurrent /\ HoldsPlayableTile) =>
           ret' = Failure(ErrHasValidPlacement)]_vars

\* C11 amended: such a pass is always rejected and changes nothing; the error
\* is "Draw a tile first." when the player has not drawn this turn and the
\* pool is non-empty, and "You have valid placements" otherwise.
PassRefusedWhenPlayableAfterDraw ==
    [][(PassByCurrent /\ HoldsPlayableTile) =>
           /\ UNCHANGED game
           /\ ret' = Failure(IF ~drawnThisTurn /\ Len(pool) > 0
                             THEN ErrMustDrawFirst
                             ELSE ErrHasValidPlacement)]_vars

\* a pass was refused because a tile drawn onto a non-empty board can be played
PassRefusedForPlayableTile ==
    /\ call.op = "pass"
    /\ ret = Failure(ErrHasValidPlacement)
    /\ drawnThisTurn
    /\ size(board) > 0
    /\ getValidPlacements(board, valuesOf(players[currentPlayerIndex + 1].tiles[1])) = {}

PassFrame ==
    [][(call'.op = "pass" /\ ret'.status = "ok") =>
           /\ Len(players') = Len(players)
           /\ \A i \in 1..Len(players) :
                 /\ players'[i].tiles = players[i].tiles
                 /\ players'[i].score =
                       (IF i # call'.player + 1 THEN players[i].score
                        ELSE IF players[i].score - 10 > 0
                             THEN players[i].score - 10 ELSE 0)
           /\ pool' = pool
           /\ board' = board]_vars

\* a pass succeeded on a board that holds a tile, with tiles left in the pool
PassedOverBoard ==
    /\ call.op = "pass"
    /\ ret.status = "ok"
    /\ lastAction = [type |-> "pass", player |-> call.player]
    /\ size(board) > 0
    /\ Len(pool) > 0

\* the tiles of every hand followed by those of the pool
RECURSIVE allHandTiles(_)
allHandTiles(n) ==
    IF n = 0 THEN <<>> ELSE allHandTiles(n - 1) \o players[n].tiles

\* C15: after start with n players every player holds 9 tiles if n <= 2 and 7
\* otherwise, every score is 0, the pool holds the other 56 - n * handSize
\* tiles, the hands and the pool hold each of the 56 catalog tiles exactly
\* once, phase is playing, drawnThisTurn is false and winner is none.
DealtAfterStart ==
    call.op = "start" =>
        LET n == Len(players)
            handSize == IF n <= 2 THEN 9 ELSE 7
            dealt == allHandTiles(n) \o pool
        IN  /\ \A i \in 1..n : Len(players[i].tiles) = handSize
            /\ \A i \in 1..n : players[i].score = 0
            /\ Len(pool) = 56 - n * handSize
            /\ Len(dealt) = 56
            /\ \A id \in 0..55 :
                  Cardinality({j \in 1..56 : dealt[j] = id}) = 1
            /\ \A id, other \in 0..55 :
                  valuesOf(id) = valuesOf(other) => id = other
            /\ phase = "playing"
            /\ drawnThisTurn = FALSE
            /\ winner = -1

\* three players were dealt 7 tiles each
ThreeHandsDealt ==
    /\ call.op = "start"
    /\ Len(players) = 3
    /\ Len(players[3].tiles) = 7
    /\ Len(pool) = 35

\* the tile at <<p, i>> (seat p, hand slot i, both from 1) beats the one at
\* <<q, j>>: a triple beats a non-triple, and within a kind the higher sum wins
Beats(p, i, q, j) ==
    LET t == valuesOf(players[p].tiles[i])
        u == valuesOf(players[q].tiles[j])
        tTriple == (t[1] = t[2] /\ t[2] = t[3])
        uTriple == (u[1] = u[2] /\ u[2] = u[3])
    IN  \/ tTriple /\ ~uTriple
        \/ tTriple = uTriple /\ t[1] + t[2] + t[3] > u[1] + u[2] + u[3]

\* the hand positions of the deal
Dealt == {x \in (1..Len(players)) \X (1..9) : x[2] <= Len(players[x[1]].tiles)}

\* C16: start sets currentPlayerIndex to the owner of the best tile: no tile
\* beats it, and it beats every tile that comes before it in player order and
\* then hand order.
StarterOwnsBestTile ==
    call.op = "start" =>
        \E x \in Dealt :
            /\ currentPlayerIndex = x[1] - 1
            /\ \A y \in Dealt :
                  /\ ~Beats(y[1], y[2], x[1], x[2])
                  /\ (y[1] < x[1] \/ (y[1] = x[1] /\ y[2] < x[2])) =>
                        Beats(x[1], x[2], y[1], y[2])

\* the starter holds a triple while an earlier seat holds a tile of a higher sum
TripleBeatsHigherSum ==
    /\ call.op = "start"
    /\ \E x \in Dealt, y \in Dealt :
          /\ currentPlayerIndex = x[1] - 1
          /\ y[1] < x[1]
          /\ isTriple(valuesOf(players[x[1]].tiles[x[2]]))
          /\ tileSum(valuesOf(players[y[1]].tiles[y[2]]))
                > tileSum(valuesOf(players[x[1]].tiles[x[2]]))

\* the occupied edge-neighbours of the cell <<r, c>>, as indices of the
\* adjacency table
OccupiedNeighbours(r, c) ==
    {i \in 1..3 : <<neighbors(r, c)[i].row, neighbors(r, c)[i].col>> \in DOMAIN board}

\* the j-th index pair of neighbour i of <<r, c>> carries equal values
PairEqual(r, c, values, i, j) ==
    LET n == neighbors(r, c)[i]
    IN  values[n.my[j] + 1] = board[<<n.row, n.col>>].values[n.their[j] + 1]

\* C17: isValid(cell, values) is false if the cell is occupied; true for every
\* cell and values if the board is empty; otherwise true iff at least one of
\* the 3 edge-neighbours is occupied and, for every occupied neighbour, both
\* index pairs of the adjacency table carry equal values.
IsValidContract ==
    call.op = "isValid" =>
        LET r == call.row
            c == call.col
            occ == OccupiedNeighbours(r, c)
        IN  ret.value =
              (IF <<r, c>> \in DOMAIN board THEN FALSE
               ELSE IF DOMAIN board = {} THEN TRUE
               ELSE /\ occ # {}
                    /\ \A i \in occ : \A j \in 1..2 :
                          PairEqual(r, c, call.values, i, j))

\* isValid turned down values that agree with an occupied neighbour on one
\* index pair and differ on the other
OnePairMismatch ==
    /\ call.op = "isValid"
    /\ ret.value = FALSE
    /\ <<call.row, call.col>> \notin DOMAIN board
    /\ \E i \in OccupiedNeighbours(call.row, call.col) :
          /\ PairEqual(call.row, call.col, call.values, i, 1)
          /\ ~PairEqual(call.row, call.col, call.values, i, 2)

\* a window of the grid that holds the region and every cell within two steps
WideGrid ==
    ((0 - RegionRows - 2)..(RegionRows + 2)) \X ((0 - 2)..(RegionCols + 2))

\* C18: on a non-empty board getValidPlacements(values) returns exactly the
\* (cell, rotation) pairs, over all cells of the grid and the rotations 0..2,
\* for which isValid(cell, orient(values, rotation)) holds; on an empty board
\* it returns exactly the 3 rotations at the cell (0,0).
EnumerationExact ==
    call.op = "getValidPlacements" =>
        ret.value =
          (IF DOMAIN board = {}
           THEN {[row |-> 0, col |-> 0, rotation |-> rot,
                  values |-> getPlacedValues(call.values, rot)] : rot \in 0..2}
           ELSE {[row |-> x[1][1], col |-> x[1][2], rotation |-> x[2],
                  values |-> getPlacedValues(call.values, x[2])] :
                    x \in {y \in WideGrid \X (0..2) :
                             isValid(board, y[1][1], y[1][2],
                                     getPlacedValues(call.values, y[2]))}})

\* the enumeration over a board of several tiles returned placements in two
\* rows and left out a rotation at a frontier cell
FrontierEnumerated ==
    /\ call.op = "getValidPlacements"
    /\ size(board) >= 2
    /\ \E e, f \in ret.value : e.row # f.row
    /\ \E e \in ret.value : \E rot \in 0..2 :
          [e EXCEPT !.rotation = rot,
                    !.values = getPlacedValues(call.values, rot)] \notin ret.value

\* the lattice vertices of the three corners of a cell
Corners(cell) == {vertexCoords(cell[1], cell[2])[i] : i \in 1..3}

\* the occupied cells that share an edge, that is two corners, with a cell
EdgeNeighbours(cell) ==
    {o \in DOMAIN board \ {cell} : Cardinality(Corners(o) \cap Corners(cell)) = 2}

\* the corner of a cell that does not lie on the edge it shares with other
OppositeVertex(cell, other) == CHOOSE v \in Corners(cell) : v \notin Corners(other)

\* exactly one occupied edge-neighbour, and an occupied cell other than the
\* cell itself touches the vertex opposite the connecting edge
BridgeAt(cell) ==
    /\ Cardinality(EdgeNeighbours(cell)) = 1
    /\ LET other == CHOOSE o \in EdgeNeighbours(cell) : TRUE
       IN  \E o \in DOMAIN board \ {cell} : OppositeVertex(cell, other) \in Corners(o)

\* the corners of a cell that are surrounded by six occupied cells
HexagonsAt(cell) ==
    {v \in Corners(cell) : Cardinality({o \in DOMAIN board : v \in Corners(o)}) = 6}

\* the base and triple part of a score
BaseOrTriple(values) ==
    IF values[1] = values[2] /\ values[2] = values[3]
    THEN (IF values[1] = 0 THEN 40 ELSE values[1] + values[2] + values[3] + 10)
    ELSE values[1] + values[2] + values[3]

OppositeVertexTable ==
    \A cell \in Region :
        LET r == cell[1]
            c == cell[2]
            v == vertexCoords(r, c)
            opp(o) == CHOOSE x \in Corners(cell) : x \notin Corners(o)
        IN  IF isUp(r, c)
            THEN /\ opp(<<r, c - 1>>) = v[2]
                 /\ opp(<<r, c + 1>>) = v[3]
                 /\ opp(<<r + 1, c>>) = v[1]
            ELSE /\ opp(<<r, c - 1>>) = v[3]
                 /\ opp(<<r, c + 1>>) = v[2]
                 /\ opp(<<r - 1, c>>) = v[1]

\* C20: calcScore adds 40 if and only if the placed cell has exactly one
\* occupied edge-neighbour and at least one occupied cell other than the
\* placed cell touches the lattice vertex of the placed cell that is opposite
\* the connecting edge (UP: left/right/bottom edge -> BR/BL/Top vertex; DOWN:
\* left/right/top edge -> TR/TL/Bottom vertex).
BridgeBonusExact ==
    /\ OppositeVertexTable
    /\ call.op = "calcScore" =>
          LET cell == <<call.row, call.col>>
              hex == Cardinality(HexagonsAt(cell))
              rest == BaseOrTriple(call.values)
                        + (IF hex = 1 THEN 50 ELSE IF hex = 2 THEN 60
                           ELSE IF hex >= 3 THEN 70 ELSE 0)
          IN  /\ ret.value.threw = FALSE
              /\ ret.value.value - rest = (IF BridgeAt(cell) THEN 40 ELSE 0)

\* calcScore of a cell with one occupied edge-neighbour whose opposite vertex
\* is touched by another tile returned the bonus
BridgeScored ==
    /\ call.op = "calcScore"
    /\ BridgeAt(<<call.row, call.col>>)
    /\ ret.value.value = BaseOrTriple(call.values) + 40

(***************************************************************************)
(* The Board around one cell: boards of (0,0,0) tiles on the 13 cells that *)
(* surround the three corners of the cell (0,0), and calcScore on them     *)
(***************************************************************************)
HexRegion ==
    {LET v == vertexCoords(0, 0)[x[1]]
         cell == surroundingCells(v.vx, v.vy)[x[2]]
     IN  <<cell.r, cell.c>> : x \in (1..3) \X (1..6)}

HexNext ==
    \/ \E cell \in HexRegion :
          BoardPlaceTile(<<0, 0, 0>>, cell[1], cell[2], 0) /\ UNCHANGED net
    \/ \E cell \in HexRegion : ProbeCalcScore(cell[1], cell[2]) /\ UNCHANGED net

HexSpec == Init /\ [][HexNext]_vars

\* C21: with n the number of the placed cell's 3 vertices whose 6 surrounding
\* cells are all occupied after the placement, calcScore adds 0, 50, 60 or 70
\* for n = 0, 1, 2, 3, on top of the base/triple score.
HexagonBonusExact ==
    call.op = "calcScore" =>
        LET cell == <<call.row, call.col>>
            n == Cardinality(HexagonsAt(cell))
            rest == BaseOrTriple(call.values) + (IF BridgeAt(cell) THEN 40 ELSE 0)
        IN  /\ ret.value.threw = FALSE
            /\ n \in 0..3
            /\ ret.value.value - rest = <<0, 50, 60, 70>>[n + 1]

\* calcScore of the cell whose three corners are each surrounded by six tiles
ThreeHexagonsScored ==
    /\ call.op = "calcScore"
    /\ Cardinality(HexagonsAt(<<call.row, call.col>>)) = 3
    /\ ret.value.value = 40 + 70

(***************************************************************************)
(* Properties of repeated and malformed calls                              *)
(***************************************************************************)
\* C23: if the same place, draw or pass action of a player is delivered to
\* the engine twice, the second delivery is rejected with an error result and
\* leaves the game state unchanged.
DuplicateRejected ==
    [][(TurnCall /\ call' = call) =>
          (ret'.status = "error" /\ UNCHANGED game)]_vars

\* C26: a place call whose rotation is outside {0, 1, 2} is answered with one
\* of the engine's error kinds (it never goes ahead as if it were some valid
\* rotation) and leaves the game state unchanged.
RotationChecked ==
    [][(call'.op = "place" /\ call'.rotation \notin 0..2) =>
          (ret'.status = "error" /\ UNCHANGED game)]_vars

(***************************************************************************)
(* Properties of the snapshots                                             *)
(***************************************************************************)
\* the seats other than playerIdx, as indices into players
OtherSeats(playerIdx) == {q \in 1..Len(players) : q # playerIdx + 1}

\* the first and the last position of a sequence
Ends(seq) == {i \in 1..Len(seq) : i = 1 \/ i = Len(seq)}

\* games that differ from the state only in what playerIdx must not see: a
\* tile of another hand exchanged with a tile of the pool, or two tiles of
\* the pool exchanged; each is a pair <<players, pool>>
HiddenVariants(playerIdx) ==
    {<<[players EXCEPT ![x[1]].tiles[x[2]] = pool[x[3]]],
       [pool EXCEPT ![x[3]] = players[x[1]].tiles[x[2]]]>> :
        x \in {y \in OtherSeats(playerIdx) \X (1..BigHand) \X Ends(pool) :
                 y[2] \in Ends(players[y[1]].tiles)}}
    \cup {<<players, [pool EXCEPT ![i] = pool[j], ![j] = pool[i]]>> :
            <<i, j>> \in Ends(pool) \X Ends(pool)}

\* the tiles a snapshot record shows: those on its board and in yourTiles
RecordTiles(record) ==
    {e[2].tileId : e \in record.board}
        \cup {record.yourTiles[i] : i \in 1..Len(record.yourTiles)}

\* the tiles held by the players other than playerIdx and by the pool
HiddenTiles(playerIdx) ==
    UNION {{players[q].tiles[i] : i \in 1..Len(players[q].tiles)} :
              q \in OtherSeats(playerIdx)}
        \cup {pool[i] : i \in 1..Len(pool)}

\* serializeForPlayer(p) returns the same record in every game that differs
\* only in the other hands or in the pool
SnapshotIgnoresHidden ==
    (call.op = "serializeForPlayer" /\ call.player < Len(players)) =>
        \A alt \in HiddenVariants(call.player) :
            serializeForPlayer(alt[1], alt[2], call.player) = ret.value

\* the record of serializeForPlayer(p) shows no tile of another hand or of
\* the pool
SnapshotShowsNoHiddenTile ==
    (call.op = "serializeForPlayer" /\ call.player < Len(players)) =>
        RecordTiles(ret.value) \cap HiddenTiles(call.player) = {}

\* C22: for any two game states that agree on the board, all scores, all hand
\* sizes, pool size, turn/phase/winner/lastAction and on player p's hand, but
\* differ in the contents of other players' hands or in the pool's contents
\* or order, serializeForPlayer(p) returns identical records; the record
\* contains no other player's tiles and no pool tile.
SnapshotPrivate == SnapshotIgnoresHidden /\ SnapshotShowsNoHiddenTile

\* C27: serializeForPlayer(p) for any p, an out-of-range index included, and
\* serializeFull() leave every component of the game state unchanged.
SnapshotReadsOnly ==
    [][call'.op \in {"serializeForPlayer", "serializeFull"} => UNCHANGED game]_vars

\* a snapshot was made for an index past the last seat of a game in progress
SnapshotForNobody ==
    /\ call.op = "serializeForPlayer"
    /\ call.player = Len(players)
    /\ phase = "playing"
    /\ ret.value.yourTiles = <<>>
    /\ ret.value.poolSize = Len(pool)

\* C24: loadFull(serializeFull()) into a fresh Game yields a state equal to
\* the original in board, every player's id, name, score and hand (with hand
\* order), the pool's contents and order, currentPlayerIndex, phase, winner,
\* drawnThisTurn and lastAction.
FullRoundTrip ==
    [][call'.op = "loadFull" =>
          /\ board' = board
          /\ players' = players
          /\ pool' = pool
          /\ currentPlayerIndex' = currentPlayerIndex
          /\ phase' = phase
          /\ winner' = winner
          /\ drawnThisTurn' = drawnThisTurn
          /\ lastAction' = lastAction]_vars

\* a fresh Game loaded the snapshot of a game with a tile on the board and a
\* drawn tile in the hand of the player whose turn it is
LoadedAfterDraw ==
    /\ call.op = "loadFull"
    /\ size(board) > 0
    /\ drawnThisTurn
    /\ lastAction.type = "draw"
    /\ Len(pool) > 0

\* C25: deserialize(serialize()) reproduces exactly the same cell ->
\* placed-tile mapping, and deserialize replaces the whole mapping: cells
\* present before the call but absent from the input are no longer occupied
\* afterwards.
BoardRoundTrip ==
    [][call'.op = "deserialize" =>
          /\ DOMAIN board' = {e[1] : e \in call'.obj}
          /\ \A e \in call'.obj : board'[e[1]] = e[2]
          /\ call'.obj = serialize(board) => board' = board]_vars

\* deserialize was given one tile of a board of two tiles, a tile that is not
\* the triple of 0, and the board holds that tile only
CellsDropped ==
    /\ call.op = "deserialize"
    /\ call.had = 2
    /\ size(board) = 1
    /\ \E k \in DOMAIN board : board[k].values = <<1, 0, 0>>

(***************************************************************************)
(* Properties of the tiles                                                 *)
(***************************************************************************)
\* (a,b,c) comes before (d,e,f) in lexicographic order
LexBefore(t, u) ==
    \/ t[1] < u[1]
    \/ t[1] = u[1] /\ t[2] < u[2]
    \/ t[1] = u[1] /\ t[2] = u[2] /\ t[3] < u[3]

\* C28: generateAll, whose result start() shuffles and deals, yields exactly
\* 56 tiles with ids 0..55 assigned in lexicographic order of (a,b,c), each
\* with 0 <= a <= b <= c <= 5, pairwise distinct, covering every multiset of
\* size 3 over {0..5} exactly once.
CatalogExact ==
    call.op = "start" =>
        /\ Len(generateAll) = 56
        /\ \A i \in 1..Len(generateAll) :
              LET t == generateAll[i].values
              IN  /\ generateAll[i].id = i - 1
                  /\ Len(t) = 3
                  /\ 0 <= t[1] /\ t[1] <= t[2] /\ t[2] <= t[3] /\ t[3] <= 5
        /\ \A i \in 1..(Len(generateAll) - 1) :
              LexBefore(generateAll[i].values, generateAll[i + 1].values)
        /\ \A i, j \in 1..Len(generateAll) :
              generateAll[i].values = generateAll[j].values => i = j
        /\ \A a, b, c \in 0..5 :
              (a <= b /\ b <= c) =>
                  Cardinality({i \in 1..Len(generateAll) :
                                  generateAll[i].values = <<a, b, c>>}) = 1

\* start dealt a catalog whose last tile is (5,5,5) and whose tiles show 56
\* different triples of values
CatalogDealt ==
    /\ call.op = "start"
    /\ Cardinality({valuesOf((allHandTiles(Len(players)) \o pool)[j]) : j \in 1..56}) = 56
    /\ \E j \in 1..56 :
          /\ (allHandTiles(Len(players)) \o pool)[j] = 55
          /\ valuesOf(55) = <<5, 5, 5>>

\* the canonical values (a,b,c) turned by a rotation of 0, 1 or 2
Turned(t, rotation) ==
    IF rotation = 0 THEN <<t[1], t[2], t[3]>>
    ELSE IF rotation = 1 THEN <<t[3], t[1], t[2]>>
    ELSE <<t[2], t[3], t[1]>>

\* C29: orient maps canonical (a,b,c) to (a,b,c), (c,a,b), (b,c,a) for
\* rotation 0, 1, 2, whatever the orientation of the cell; for every tile and
\* every rotation its sum and its multiset of values equal those of the
\* canonical tile.
OrientCyclic ==
    (call.op = "place" /\ ret.status # "error" /\ call.rotation \in 0..2) =>
        LET cell == board[<<call.row, call.col>>]
        IN  /\ cell.values = Turned(valuesOf(cell.tileId), call.rotation)
            /\ \A id \in 0..55 : \A rotation \in 0..2 :
                  LET t == valuesOf(id)
                      u == getPlacedValues(t, rotation)
                  IN  /\ u = Turned(t, rotation)
                      /\ u[1] + u[2] + u[3] = t[1] + t[2] + t[3]
                      /\ \A v \in 0..5 :
                            Cardinality({i \in 1..3 : u[i] = v})
                                = Cardinality({i \in 1..3 : t[i] = v})

\* a tile was placed with rotation 1 on a cell that points down, and its
\* values on the board are not in canonical order
TurnedTilePlaced ==
    /\ call.op = "place"
    /\ ret.status # "error"
    /\ call.rotation = 1
    /\ ~isUp(call.row, call.col)
    /\ board[<<call.row, call.col>>].values
          # valuesOf(board[<<call.row, call.col>>].tileId)

(***************************************************************************)
(* Properties of the placed tiles                                          *)
(***************************************************************************)
\* every occupied cell stays occupied with the same values, tile id and
\* player id
CellsKept ==
    \A k \in DOMAIN board : k \in DOMAIN board' /\ board'[k] = board[k]

\* C30: once a cell is occupied, under any further place, draw and pass calls
\* it stays occupied with the same oriented values, tile id and player id;
\* the set of occupied cells only grows, by exactly one cell per successful
\* place (and by none in any other call).
PlacedTilesImmutable ==
    [][/\ CellsKept
       /\ Cardinality(DOMAIN board' \ DOMAIN board)
            = (IF call'.op = "place" /\ ret'.status = "ok" THEN 1 ELSE 0)]_vars

(***************************************************************************)
(* Properties of whole games                                               *)
(***************************************************************************)
\* the number of places that hold the tile id: positions of the pool,
\* positions of the hands and cells of the board
Holders(id) ==
    Cardinality({i \in 1..Len(pool) : pool[i] = id})
        + Cardinality({x \in (1..Len(players)) \X (1..Len(generateAll)) :
                          /\ x[2] <= Len(players[x[1]].tiles)
                          /\ players[x[1]].tiles[x[2]] = id})
        + Cardinality({k \in DOMAIN board : board[k].tileId = id})

\* the number of tiles in the hands of the seats 1..n
RECURSIVE HandTiles(_)
HandTiles(n) == IF n = 0 THEN 0 ELSE HandTiles(n - 1) + Len(players[n].tiles)

\* C32: in every state reachable by one start followed by place, draw and
\* pass calls, each of the 56 tile ids is in exactly one place (the pool, one
\* hand or one board cell), so pool size + sum of hand sizes + number of
\* occupied cells = 56.
TilesConserved ==
    phase # "waiting" =>
        /\ \A id \in 0..55 : Holders(id) = 1
        /\ Len(pool) + HandTiles(Len(players)) + size(board) = 56

\* the entries of getValidPlacements for the tiles of the current player's
\* hand, each with its hand slot
PlayableEntries ==
    {x \in (0..(Len(generateAll) - 1)) \X
           UNION {getValidPlacements(board, valuesOf(id)) : id \in 0..(Len(generateAll) - 1)} :
        /\ x[1] < Len(players[currentPlayerIndex + 1].tiles)
        /\ x[2] \in getValidPlacements(board,
                        valuesOf(players[currentPlayerIndex + 1].tiles[x[1] + 1]))}

\* the place call of the current player for the entry x succeeds
EntryAccepted(x) ==
    ENABLED (/\ PlaceTile(currentPlayerIndex, x[1], x[2].row, x[2].col, x[2].rotation)
             /\ ret'.status = "ok")

\* C33: in every reachable state with phase = playing at least one action of
\* the current player succeeds: draw if the pool is non-empty, otherwise some
\* place if the player holds a tile with a legal placement (every entry of
\* getValidPlacements is accepted by place), otherwise pass.
NoDeadlockWhilePlaying ==
    phase = "playing" =>
        IF Len(pool) > 0
        THEN ENABLED (DrawTile(currentPlayerIndex) /\ ret'.status = "ok")
        ELSE IF PlayableEntries # {}
        THEN \A x \in PlayableEntries : EntryAccepted(x)
        ELSE ENABLED (PassTurn(currentPlayerIndex) /\ ret'.status = "ok")

\* the place calls of the current player for the first tile of the hand,
\* unturned
PlaceFirstTile ==
    /\ currentPlayerIndex < Len(players)
    /\ size(board) < MaxBoard
    /\ \E cell \in Grid : PlaceTile(currentPlayerIndex, 0, cell[1], cell[2], 0)

\* the game played by the player whose turn it is
PlayNext ==
    \/ AddPlayer /\ UNCHANGED net
    \/ \E seed \in 1..NumSeeds : Start(seed) /\ UNCHANGED net
    \/ PlaceFirstTile /\ UNCHANGED net
    \/ DrawTile(currentPlayerIndex) /\ UNCHANGED net
    \/ PassTurn(currentPlayerIndex) /\ UNCHANGED net

\* a place, draw or pass that returns success
SuccessfulAction == PlayNext /\ TurnCall /\ ret'.status = "ok"

\* the engine waits for the players; the player whose turn it is goes on to
\* make a successful action for as long as one is possible
FairPlaySpec == Init /\ [][PlayNext]_vars /\ WF_vars(SuccessfulAction)

\* C34: every game terminates: after start, phase = finished is reached after
\* a bounded number of successful actions (draws shrink the pool, places
\* shrink the hands, passes are bounded by the draws and by the stalemate
\* end).
GameTerminates == (phase = "playing") ~> (phase = "finished")

\* the occupied cells that a chain of edge-neighbours links to the cells of
\* seen, found by adding the occupied neighbours until none is new
RECURSIVE LinkedCells(_)
LinkedCells(seen) ==
    LET more == {k \in DOMAIN board \ seen :
                    \E s \in seen : \E i \in 1..3 :
                        k = <<neighbors(s[1], s[2])[i].row, neighbors(s[1], s[2])[i].col>>}
    IN  IF more = {} THEN seen ELSE LinkedCells(seen \cup more)

\* C35: in every reachable state the occupied cells form one edge-connected
\* region: any two occupied cells are linked by a chain of occupied cells in
\* which consecutive cells are edge-neighbours.
BoardConnected ==
    \A k \in DOMAIN board : LinkedCells({k}) = DOMAIN board

\* the board holds two cells three columns apart, in different rows, that a
\* chain of occupied cells links
ChainAcrossRows ==
    /\ size(board) >= 5
    /\ \E k, m \in DOMAIN board :
          /\ k[2] + 3 <= m[2]
          /\ k[1] # m[1]
          /\ m \in LinkedCells({k})

\* C36: for every board and every placed cell, if the 6 cells around a vertex
\* of the cell are all occupied then at least two of its edge-neighbours are
\* occupied, so _isBridge is false; no placement is awarded both +40 and a
\* hexagon bonus, and the first tile on an empty board gets neither.
BonusesExclusive ==
    /\ \A k \in DOMAIN board :
          HexagonsAt(k) # {} =>
              /\ Cardinality(EdgeNeighbours(k)) >= 2
              /\ Cardinality(OccupiedNeighbours(k[1], k[2])) >= 2
              /\ ~isBridge(board, k[1], k[2])
    /\ call.op = "calcScore" =>
          LET extra == ret.value.value - BaseOrTriple(call.values)
          IN  /\ extra \in {0, 40, 50, 60, 70}
              /\ extra = 40 <=> isBridge(board, call.row, call.col)
              /\ extra >= 50 <=> countCompletedHexagons(board, call.row, call.col) > 0
              /\ size(board) = 1 => extra = 0

\* calcScore of a cell with exactly two occupied edge-neighbours and one
\* completed hexagon returned the hexagon bonus alone
HexagonWithoutBridge ==
    /\ call.op = "calcScore"
    /\ Cardinality(HexagonsAt(<<call.row, call.col>>)) = 1
    /\ Cardinality(EdgeNeighbours(<<call.row, call.col>>)) = 2
    /\ ret.value.value = 40 + 50

(***************************************************************************)
(* The Board around one vertex: boards of tiles over the values 0 and 1 on *)
(* the 6 cells that surround the second corner of the cell (0,0)           *)
(***************************************************************************)
RingCells ==
    {LET v == vertexCoords(0, 0)[2]
         cell == surroundingCells(v.vx, v.vy)[i]
     IN  <<cell.r, cell.c>> : i \in 1..6}

\* the canonical values of the tiles placed around the vertex
RingTileValues == {<<0, 0, 0>>, <<0, 0, 1>>, <<0, 1, 1>>, <<1, 1, 1>>}

\* the part of placeTile that concerns the Board, for any tile
RingPlaceTile(tileValues, row, col, rotation) ==
    LET values == getPlacedValues(tileValues, rotation)
    IN  /\ isValid(board, row, col, values)
        /\ board' = boardPlace(board, row, col, values, tileIdOf(tileValues), 0)
        /\ call' = [op |-> "boardPlace", player |-> -1]
        /\ ret' = NoRet
        /\ UNCHANGED <<players, pool, currentPlayerIndex, phase, drawnThisTurn,
                       winner, lastAction>>

RingNext ==
    \E tileValues \in RingTileValues, cell \in RingCells, rotation \in 0..2 :
        RingPlaceTile(tileValues, cell[1], cell[2], rotation) /\ UNCHANGED net

RingSpec == Init /\ [][RingNext]_vars

\* the cells of the ring and the cells next to them
RingWindow ==
    {<<k[1] + d[1], k[2] + d[2]>> : <<k, d>> \in RingCells \X ((-1..1) \X (-2..2))}

\* each index pair the adjacency tables match is one lattice vertex, seen from
\* the two cells
PairsAreVertices ==
    \A k \in RingWindow : \A i \in 1..3 : \A j \in 1..2 :
        LET n == neighbors(k[1], k[2])[i]
        IN  vertexCoords(k[1], k[2])[n.my[j] + 1]
                = vertexCoords(n.row, n.col)[n.their[j] + 1]

\* _surroundingCells lists, once each, exactly the cells with a corner on the
\* vertex
SurroundingCellsExact ==
    \A k \in RingCells : \A i \in 1..3 :
        LET v == vertexCoords(k[1], k[2])[i]
            listed == {<<surroundingCells(v.vx, v.vy)[x].r,
                         surroundingCells(v.vx, v.vy)[x].c>> : x \in 1..6}
        IN  /\ Cardinality(listed) = 6
            /\ listed = {m \in RingWindow : v \in Corners(m)}

\* C37: in every reachable board, whenever all 6 cells around a lattice vertex
\* are occupied, the 6 placed tiles carry the same value at their corner lying
\* on that vertex; the corner pairs of the adjacency tables are the same
\* lattice vertex under _vertexCoords and _surroundingCells lists exactly the
\* cells with a corner on the vertex.
VertexAgreement ==
    /\ PairsAreVertices
    /\ SurroundingCellsExact
    /\ \A k \in DOMAIN board : \A i \in 1..3 :
          LET v == vertexCoords(k[1], k[2])[i]
          IN  isHexagonComplete(board, v.vx, v.vy) =>
                  \A m \in DOMAIN board : \A j \in 1..3 :
                      vertexCoords(m[1], m[2])[j] = v =>
                          board[m].values[j] = board[k].values[i]

\* six tiles surround the vertex, which carries the value 1, and one of them
\* is not a triple
MixedHexagon ==
    /\ DOMAIN board = RingCells
    /\ board[<<0, 0>>].values[2] = 1
    /\ \E k \in DOMAIN board : ~isTriple(board[k].values)

\* C38: in every state reachable through start, place, draw and pass, winner
\* is a valid player index if and only if phase = finished, winner is none
\* (-1) in waiting and playing, and during playing currentPlayerIndex is a
\* valid player index.
PhaseWinnerConsistent ==
    /\ phase \in {"waiting", "playing", "finished"}
    /\ (winner \in 0..(Len(players) - 1)) <=> (phase = "finished")
    /\ phase \in {"waiting", "playing"} => winner = -1
    /\ phase = "playing" => currentPlayerIndex \in 0..(Len(players) - 1)

\* while playing, the pass of the last seat handed the turn to seat 0 and no
\* winner is set
TurnWrappedWhilePlaying ==
    /\ phase = "playing"
    /\ lastAction.type = "pass"
    /\ lastAction.player = Len(players) - 1
    /\ currentPlayerIndex = 0
    /\ winner = -1

(***************************************************************************)
(* js/app.js and js/network.js: the online game.  One app in host mode     *)
(* holds the Game of the state; every remote peer runs an app in client    *)
(* mode.  Each handler is one step.                                        *)
(***************************************************************************)
\* Network.sendToPeer of a 'state' message: what the host sends to peer
stateFor(peer) ==
    [type |-> "state",
     state |-> serializeForPlayer(players, pool, peerToPlayer[peer])]

\* _broadcastState after the handler's changes: a personalised 'state' message
\* to every registered peer but 'host'; sendToPeer drops it unless the
\* connection of the peer is open
BroadcastState ==
    stateSent' =
        [peer \in Peers |->
            IF peer \in DOMAIN peerToPlayer' /\ connections'[peer] = "open"
            THEN stateFor(peer)'
            ELSE stateSent[peer]]

\* the handler of the host was left by an exception
Threw == ret'.status = "threw"

\* _createOnline: the host seats itself as player 0
CreateOnline ==
    /\ peerToPlayer = NoPeers
    /\ players = <<>>
    /\ players' = <<[id |-> HostPeer, name |-> HostPeer, tiles |-> <<>>, score |-> 0]>>
    /\ peerToPlayer' = [p \in {HostPeer} |-> 0]
    /\ call' = [op |-> "createOnline", player |-> 0]
    /\ ret' = NoRet
    /\ UNCHANGED <<board, pool, currentPlayerIndex, phase, drawnThisTurn,
                   winner, lastAction, connections, toHost, stateSent, replica>>

\* _joinOnline of the app of a remote peer: joinGame opens the connection
\* (Network._handleIncoming on the host) and the join request is sent
JoinOnline(peer) ==
    /\ HostPeer \in DOMAIN peerToPlayer
    /\ connections[peer] = "none"
    /\ Len(toHost) < MaxInFlight
    /\ connections' = [connections EXCEPT ![peer] = "open"]
    /\ toHost' = Append(toHost, [type |-> "join", from |-> peer])
    /\ call' = [op |-> "joinOnline", player |-> -1, peer |-> peer]
    /\ ret' = NoRet
    /\ UNCHANGED <<game, peerToPlayer, stateSent, replica>>

\* a peer whose connection is open sends a join request again
JoinAgain(peer) ==
    /\ connections[peer] = "open"
    /\ Len(toHost) < MaxInFlight
    /\ toHost' = Append(toHost, [type |-> "join", from |-> peer])
    /\ call' = [op |-> "joinAgain", player |-> -1, peer |-> peer]
    /\ ret' = NoRet
    /\ UNCHANGED <<game, peerToPlayer, connections, stateSent, replica>>

\* the connection of a peer closes: the host deletes it from its connections
\* and no message of the peer arrives any more
ConnectionClosed(peer) ==
    /\ connections[peer] = "open"
    /\ connections' = [connections EXCEPT ![peer] = "closed"]
    /\ toHost' = SelectSeq(toHost, LAMBDA m : m.from # peer)
    /\ call' = [op |-> "close", player |-> -1, peer |-> peer]
    /\ ret' = NoRet
    /\ UNCHANGED <<game, peerToPlayer, stateSent, replica>>

\* _hostOnMessage, case 'join'
HostOnJoin(from) ==
    /\ call' = [op |-> "join", player |-> -1, peer |-> from]
    /\ IF Len(players) >= MaxPlayers
       THEN /\ ret' = Failure("Game is full.")
            /\ UNCHANGED <<game, peerToPlayer>>
       ELSE IF phase # "waiting"
       THEN /\ ret' = Failure("Game already started.")
            /\ UNCHANGED <<game, peerToPlayer>>
       ELSE /\ players' = Append(players,
                   [id |-> from, name |-> from, tiles |-> <<>>, score |-> 0])
            /\ peerToPlayer' = [p \in DOMAIN peerToPlayer \cup {from} |->
                                   IF p = from THEN Len(players) ELSE peerToPlayer[p]]
            /\ ret' = NoRet
            /\ UNCHANGED <<board, pool, currentPlayerIndex, phase, drawnThisTurn,
                           winner, lastAction>>
    /\ UNCHANGED stateSent

\* if (pIdx === undefined) return
HostIgnores(type, from) ==
    /\ call' = [op |-> "ignored", player |-> -1, peer |-> from, type |-> type]
    /\ ret' = NoRet
    /\ UNCHANGED <<game, peerToPlayer, stateSent>>

\* _hostOnMessage, case 'place': the exception of placeTile leaves the handler
\* before _broadcastState
HostOnPlace(from, data) ==
    IF from \notin DOMAIN peerToPlayer THEN HostIgnores("place", from)
    ELSE /\ PlaceTile(peerToPlayer[from], data.tileIndex, data.row, data.col,
                      data.rotation)
         /\ UNCHANGED peerToPlayer
         /\ IF Threw THEN UNCHANGED stateSent ELSE BroadcastState

\* _hostOnMessage, case 'draw'
HostOnDraw(from) ==
    IF from \notin DOMAIN peerToPlayer THEN HostIgnores("draw", from)
    ELSE /\ DrawTile(peerToPlayer[from])
         /\ UNCHANGED peerToPlayer
         /\ BroadcastState

\* _hostOnMessage, case 'pass'
HostOnPass(from) ==
    IF from \notin DOMAIN peerToPlayer THEN HostIgnores("pass", from)
    ELSE /\ PassTurn(peerToPlayer[from])
         /\ UNCHANGED peerToPlayer
         /\ BroadcastState

\* Network hands the host the oldest message in flight
HostOnMessage ==
    /\ toHost # <<>>
    /\ toHost' = Tail(toHost)
    /\ UNCHANGED <<connections, replica>>
    /\ LET data == Head(toHost)
       IN  CASE data.type = "join" -> HostOnJoin(data.from)
             [] data.type = "place" -> HostOnPlace(data.from, data)
             [] data.type = "draw" -> HostOnDraw(data.from)
             [] data.type = "pass" -> HostOnPass(data.from)

\* _startGame in host mode, from the start button of the lobby screen; with
\* fewer than two players it returns at once
StartGame(seed) ==
    /\ HostPeer \in DOMAIN peerToPlayer
    /\ phase = "waiting"
    /\ Len(players) >= 2
    /\ Start(seed)
    /\ UNCHANGED <<peerToPlayer, connections, toHost, replica>>
    /\ BroadcastState

\* _isMyTurn of the host.  It reads viewState, which _startGame and
\* _updateLocalGame take from the game; phase and currentPlayerIndex of the
\* two differ in no state (a handler that an exception leaves has changed
\* neither)
HostIsMyTurn ==
    /\ HostPeer \in DOMAIN peerToPlayer
    /\ phase = "playing"
    /\ currentPlayerIndex = peerToPlayer[HostPeer]

\* the tiles left the pool since the deal
Drawn == Len(generateAll) - Len(players) * perPlayer(Len(players)) - Len(pool)

\* _onBoardClick in host mode: a hand tile is selected and the cell clicked is
\* one of its valid placements
HostOnBoardClick(tileIdx) ==
    /\ HostIsMyTurn
    /\ size(board) < MaxNetBoard
    /\ tileIdx < Len(players[1].tiles)
    /\ \E entry \in getValidPlacements(board, valuesOf(players[1].tiles[tileIdx + 1])) :
          PlaceTile(0, tileIdx, entry.row, entry.col, entry.rotation)
    /\ UNCHANGED <<peerToPlayer, connections, toHost, replica>>
    /\ IF ret'.status = "ok" THEN BroadcastState ELSE UNCHANGED stateSent

\* _doDrawTile in host mode
HostDoDrawTile ==
    /\ HostIsMyTurn
    /\ Drawn < MaxDrawn
    /\ DrawTile(0)
    /\ UNCHANGED <<peerToPlayer, connections, toHost, replica>>
    /\ IF ret'.status = "ok" THEN BroadcastState ELSE UNCHANGED stateSent

\* _doPass in host mode
HostDoPass ==
    /\ HostIsMyTurn
    /\ PassTurn(0)
    /\ UNCHANGED <<peerToPlayer, connections, toHost, replica>>
    /\ IF ret'.status = "ok" THEN BroadcastState ELSE UNCHANGED stateSent

\* _refreshFromView: the game copy a client builds from the snapshot vs
refreshFromView(vs) ==
    [loaded |-> TRUE,
     viewState |-> vs,
     myIndex |-> vs.yourIndex,
     board |-> deserialize(EmptyCells, vs.board),
     currentPlayerIndex |-> vs.currentPlayerIndex,
     phase |-> vs.phase,
     winner |-> vs.winner,
     drawnThisTurn |-> (vs.drawnThisTurn \/ FALSE),
     lastAction |-> vs.lastAction,
     players |-> [i \in 1..Len(vs.players) |->
                    [id |-> vs.players[i].id, name |-> vs.players[i].name,
                     tileCount |-> vs.players[i].tileCount,
                     score |-> vs.players[i].score,
                     tiles |-> IF i - 1 = vs.yourIndex THEN vs.yourTiles ELSE <<>>]],
     poolSize |-> vs.poolSize]

\* _clientOnMessage, case 'state': the client takes the last message sent to it
ClientOnMessage(peer) ==
    /\ connections[peer] = "open"
    /\ stateSent[peer].type = "state"
    /\ replica' = [replica EXCEPT ![peer] = refreshFromView(stateSent[peer].state)]
    /\ call' = [op |-> "clientState", player |-> -1, peer |-> peer]
    /\ ret' = NoRet
    /\ UNCHANGED <<game, peerToPlayer, connections, toHost, stateSent>>

\* _isMyTurn of a client
ClientIsMyTurn(peer) ==
    /\ replica[peer].loaded
    /\ replica[peer].viewState.phase = "playing"
    /\ replica[peer].viewState.currentPlayerIndex = replica[peer].myIndex

\* Network.sendToHost: the message leaves if the connection is open
sendToHost(peer, data) ==
    IF connections[peer] = "open" THEN Append(toHost, data) ELSE toHost

\* a faulty _doDrawTile of a client that marks the draw in its own copy
ClientDoDrawTileAhead(peer) ==
    /\ ClientIsMyTurn(peer)
    /\ Drawn < MaxDrawn
    /\ Len(toHost) < MaxInFlight
    /\ toHost' = sendToHost(peer, [type |-> "draw", from |-> peer])
    /\ replica' = [replica EXCEPT ![peer].drawnThisTurn = TRUE]
    /\ call' = [op |-> "clientDraw", player |-> -1, peer |-> peer]
    /\ ret' = NoRet
    /\ UNCHANGED <<game, peerToPlayer, connections, stateSent>>

\* _onBoardClick in client mode: the click is sent to the host
ClientOnBoardClick(peer, tileIdx) ==
    /\ ClientIsMyTurn(peer)
    /\ size(board) < MaxNetBoard
    /\ tileIdx < Len(replica[peer].viewState.yourTiles)
    /\ Len(toHost) < MaxInFlight
    /\ \E entry \in getValidPlacements(replica[peer].board,
                      valuesOf(replica[peer].viewState.yourTiles[tileIdx + 1])) :
          toHost' = sendToHost(peer, [type |-> "place", from |-> peer,
                                      tileIndex |-> tileIdx, row |-> entry.row,
                                      col |-> entry.col, rotation |-> entry.rotation])
    /\ call' = [op |-> "clientPlace", player |-> -1, peer |-> peer]
    /\ ret' = NoRet
    /\ UNCHANGED <<game, peerToPlayer, connections, stateSent, replica>>

\* _doDrawTile in client mode
ClientDoDrawTile(peer) ==
    /\ ClientIsMyTurn(peer)
    /\ Drawn < MaxDrawn
    /\ Len(toHost) < MaxInFlight
    /\ toHost' = sendToHost(peer, [type |-> "draw", from |-> peer])
    /\ call' = [op |-> "clientDraw", player |-> -1, peer |-> peer]
    /\ ret' = NoRet
    /\ UNCHANGED <<game, peerToPlayer, connections, stateSent, replica>>

\* _doPass in client mode
ClientDoPass(peer) ==
    /\ ClientIsMyTurn(peer)
    /\ Len(toHost) < MaxInFlight
    /\ toHost' = sendToHost(peer, [type |-> "pass", from |-> peer])
    /\ call' = [op |-> "clientPass", player |-> -1, peer |-> peer]
    /\ ret' = NoRet
    /\ UNCHANGED <<game, peerToPlayer, connections, stateSent, replica>>

\* the hand slots a click selects: the first slots of a hand
SlotInputs == 0..(NetSlots - 1)

NetNext ==
    \/ CreateOnline
    \/ \E peer \in Peers : JoinOnline(peer)
    \/ \E peer \in Peers : JoinAgain(peer)
    \/ \E peer \in Peers : ConnectionClosed(peer)
    \/ HostOnMessage
    \/ \E seed \in 1..NetSeeds : StartGame(seed)
    \/ \E tileIdx \in SlotInputs : HostOnBoardClick(tileIdx)
    \/ HostDoDrawTile
    \/ HostDoPass
    \/ \E peer \in Peers : ClientOnMessage(peer)
    \/ \E peer \in Peers, tileIdx \in SlotInputs : ClientOnBoardClick(peer, tileIdx)
    \/ \E peer \in Peers : ClientDoDrawTile(peer)
    \/ \E peer \in Peers : ClientDoPass(peer)

NetSpec == Init /\ [][NetNext]_vars

(***************************************************************************)
(* Properties of the online game                                           *)
(***************************************************************************)
\* the peers the registry of the host maps to the seat idx
PeersOfSeat(idx) == {p \in DOMAIN peerToPlayer : peerToPlayer[p] = idx}

\* the game never has more than four players
AtMostFourPlayers == Len(players) <= MaxPlayers

\* distinct peers of the registry have distinct seats, and every seat is a
\* player of the game
DistinctSeats ==
    \A p \in DOMAIN peerToPlayer :
        /\ peerToPlayer[p] \in 0..(Len(players) - 1)
        /\ PeersOfSeat(peerToPlayer[p]) = {p}

\* C39: after any sequence of join messages (repeated joins of one peer and
\* joins after the start included) the game has at most four players and
\* peerToPlayer maps distinct peers to distinct seats that cover every
\* player: each seat is controlled by exactly one peer
SeatRegistry ==
    /\ AtMostFourPlayers
    /\ DistinctSeats
    /\ \A idx \in 0..(Len(players) - 1) : Cardinality(PeersOfSeat(idx)) = 1

\* the host has handled a place, draw or pass message, or its own start,
\* place, draw or pass
HostHandledAction == call.op \in {"start", "place", "draw", "pass"}

\* the last 'state' message of every registered remote peer with an open
\* connection is the snapshot of the game for the seat of the peer
ReplicasInformed ==
    \A peer \in Peers :
        (peer \in DOMAIN peerToPlayer /\ connections[peer] = "open")
            => /\ stateSent[peer] = stateFor(peer)
               /\ stateSent[peer].state.yourIndex = peerToPlayer[peer]

\* C40: once the host has handled start or a place, draw or pass (of a remote
\* peer or of its own interface, accepted or rejected) the most recent
\* 'state' message sent to each registered remote peer with an open
\* connection equals serializeForPlayer of the current game for the seat of
\* that peer, with yourIndex that seat
HostToReplicaConsistent == HostHandledAction => ReplicasInformed

\* the same while no tile lies on the board: before the first accepted
\* placement the messages agree with the game
ConsistentOnEmptyBoard ==
    (HostHandledAction /\ size(board) = 0) => ReplicasInformed

\* the step is a place, draw or pass input of the interface of a client
ClientInputStep == call'.op \in {"clientPlace", "clientDraw", "clientPass"}

\* the local game copy of peer is replaced by the one built from the 'state'
\* message it received
AppliesSnapshot(peer) ==
    /\ call'.op = "clientState"
    /\ call'.peer = peer
    /\ stateSent[peer].type = "state"
    /\ replica'[peer] = refreshFromView(stateSent[peer].state)

\* the input of a client does nothing but send at most one message to the host
OnlySends ==
    /\ replica' = replica
    /\ UNCHANGED <<game, peerToPlayer, stateSent>>
    /\ \/ toHost' = toHost
       \/ /\ Len(toHost') = Len(toHost) + 1
          /\ SubSeq(toHost', 1, Len(toHost)) = toHost
          /\ toHost'[Len(toHost')].from = call'.peer
          /\ toHost'[Len(toHost')].type \in {"place", "draw", "pass"}

\* C31: a replica changes its local game copy only when it applies a received
\* 'state' snapshot; its place, draw and pass inputs only send a message to
\* the host and never modify the local board, hands, scores, turn or phase
ReplicaChangesOnlyBySnapshot ==
    [][/\ \A peer \in Peers :
             replica'[peer] # replica[peer] => AppliesSnapshot(peer)
       /\ ClientInputStep => OnlySends]_vars

\* a client whose copy is the snapshot it received has just sent a placement
\* to the host
ClientSentPlacement ==
    /\ call.op = "clientPlace"
    /\ replica[call.peer].loaded
    /\ replica[call.peer] = refreshFromView(stateSent[call.peer].state)
    /\ toHost # <<>>
    /\ toHost[Len(toHost)].type = "place"
    /\ toHost[Len(toHost)].from = call.peer

====
